---- MODULE Spec2Model ----
(***************************************************************************)
(* Model of the X plugin for Astreus: the tool facade XPlugin              *)
(* (src/src/plugin.ts) on top of the HTTP client XClient                   *)
(* (src/src/client.ts).                                                    *)
(*                                                                         *)
(* An invocation of a tool executor is a JavaScript async function: it     *)
(* runs without interruption up to its next `await`, where other callers   *)
(* (further invocations, init(), registerTool(), removeTool()) may run.    *)
(* Every action below is one such uninterrupted stretch of code.           *)
(*                                                                         *)
(* Optional JavaScript values are sequences of length at most one:         *)
(* <<>> is `undefined`, <<v>> is the value v.                              *)
(***************************************************************************)
EXTENDS Integers, Sequences, FiniteSets, TLC

VARIABLES
    xConfig,    \* XPlugin.xConfig: which credentials are set
    client,     \* XPlugin.client: Null, or the identity of an XClient object
    built,      \* number of XClient objects constructed so far
    tools,      \* XPlugin.tools: the Map, as its entries in insertion order
    config,     \* XPlugin.config.tools
    call,       \* the invocations in flight, per caller
    response,   \* the raw response handed to XClient.processTweets
    normalized, \* what processTweets made of it
    signing,    \* the arguments of two calls of XClient.generateAuthHeader
    signed      \* what generateAuthHeader computed for them
vars == <<xConfig, client, built, tools, config, call, response, normalized, signing, signed>>

\* the variables of the pure functions, which the facade leaves alone
normalizerVars == <<response, normalized>>
signerVars == <<signing, signed>>

-----------------------------------------------------------------------------
(* Bounds of the model *)

\* explicit init() calls are allowed until this many XClient objects exist
MaxClients == 2

\* longest poll option array a caller passes
MaxOptions == 5

-----------------------------------------------------------------------------
(* Values *)

Null == 0

None == <<>>

Some(v) == <<v>>

\* names of the callers whose invocations may be in flight
Calls == {"c1"}

\* src/src/plugin.ts getChatManifests: the catalog, in order
getChatManifests ==
    << "x_get_profile", "x_get_tweets", "x_get_tweet", "x_search_tweets",
       "x_send_tweet", "x_send_tweet_with_poll", "x_retweet", "x_like_tweet",
       "x_get_trends" >>

RECURSIVE SeqToSet(_)
SeqToSet(s) == IF s = <<>> THEN {} ELSE {Head(s)} \cup SeqToSet(Tail(s))

ToolNames == SeqToSet(getChatManifests)

\* manifest.name.replace('x_', '') and the switch of the executor
MethodOf(tool) ==
    CASE tool = "x_get_profile"          -> "getProfile"
      [] tool = "x_get_tweets"           -> "getTweets"
      [] tool = "x_get_tweet"            -> "getTweet"
      [] tool = "x_search_tweets"        -> "searchTweets"
      [] tool = "x_send_tweet"           -> "sendTweet"
      [] tool = "x_send_tweet_with_poll" -> "sendTweetWithPoll"
      [] tool = "x_retweet"              -> "retweet"
      [] tool = "x_like_tweet"           -> "likeTweet"
      [] tool = "x_get_trends"           -> "getTrends"

-----------------------------------------------------------------------------
(* Credentials *)

\* XConfig as the constructor receives it: TRUE where the field is a non-empty
\* string.
XConfig(apiKey, apiSecret, accessToken, accessSecret, clientId, clientSecret) ==
    [apiKey |-> apiKey, apiSecret |-> apiSecret,
     accessToken |-> accessToken, accessSecret |-> accessSecret,
     clientId |-> clientId, clientSecret |-> clientSecret]

\* the configurations a plugin is constructed with: one for every outcome of
\* the branches on the credentials (plugin.ts:48, client.ts:132)
Configs ==
    { XConfig(FALSE, FALSE, FALSE, FALSE, FALSE, FALSE),
      XConfig(TRUE,  FALSE, TRUE,  TRUE,  TRUE,  TRUE),
      XConfig(FALSE, TRUE,  TRUE,  TRUE,  FALSE, FALSE),
      XConfig(TRUE,  TRUE,  FALSE, FALSE, FALSE, FALSE),
      XConfig(TRUE,  TRUE,  TRUE,  TRUE,  TRUE,  FALSE),
      XConfig(TRUE,  TRUE,  TRUE,  TRUE,  FALSE, TRUE),
      XConfig(TRUE,  TRUE,  TRUE,  TRUE,  TRUE,  TRUE) }

\* a check of the API key alone
InitThrowsKeyOnly(cfg) == ~cfg.apiKey

\* plugin.ts:48  if (!this.xConfig.apiKey || !this.xConfig.apiSecret) throw
InitThrows(cfg) == ~cfg.apiKey \/ ~cfg.apiSecret

-----------------------------------------------------------------------------
(* Errors and results *)

\* An Error object: its message, and for an API error the HTTP status and the
\* text that `X API error: ${status} - ${text}` embeds (NoDetail otherwise).
NoDetail == <<>>

Err(msg) == [msg |-> msg, status |-> 0, detail |-> NoDetail]

NoErr == Err("-")

ErrCredentials == Err("X API key and secret are required")

ErrNotInitialized == Err("X client not initialized")

ErrNotImplemented == Err("getTrends is not implemented in the X API client")

ErrPollOptions == Err("At least two poll options are required")

\* the error axios raises when no response arrived
ErrNetwork == Err("Network Error")

\* the message of the missing-parameter error of each facade method
MissingMessage(method) ==
    CASE method \in {"getProfile", "getTweets"}                -> "Username is required"
      [] method \in {"getTweet", "retweet", "likeTweet"}       -> "Tweet ID is required"
      [] method = "searchTweets"                               -> "Search query is required"
      [] method \in {"sendTweet", "sendTweetWithPoll"}         -> "Tweet text is required"
      [] OTHER                                                 -> "-"

\* the required parameter each facade method checks first
RequiredField(method) ==
    CASE method \in {"getProfile", "getTweets"}                -> "username"
      [] method \in {"getTweet", "retweet", "likeTweet"}       -> "id"
      [] method = "searchTweets"                               -> "query"
      [] method \in {"sendTweet", "sendTweetWithPoll"}         -> "text"
      [] OTHER                                                 -> "-"

\* A value a call returns.  kind is
\*   "envelope"  {success, id?, error?}      "boolean"  true / false
\*   "profile", "tweet", "tweets"            "null", "empty_array"
\* id is "absent" (no such field), "null", or a tweet id.
Val(kind) == [kind |-> kind, success |-> FALSE, id |-> "absent", error |-> NoErr]

NoVal == Val("-")

Envelope(success, id, error) ==
    [kind |-> "envelope", success |-> success, id |-> id, error |-> error]

Bool(b) == [kind |-> "boolean", success |-> b, id |-> "absent", error |-> NoErr]

-----------------------------------------------------------------------------
(* HTTP *)

\* the identifier the remote API assigns
RemoteId == "id1"

\* Bodies of a 2xx response, by what the client reads of them:
\*   "empty"       no body ('' in axios)
\*   "no_data"     an object without `data`
\*   "data_no_id"  {data: {...}} without data.id
\*   "data_id"     {data: {id: RemoteId, ...}}
\*   "data_array"  {data: [ ... ]}
OkBodies == {"empty", "no_data", "data_no_id", "data_id", "data_array"}

\* response.data is truthy
HasData(body) == body \in {"data_no_id", "data_id", "data_array"}

\* response.data.id is truthy
HasId(body) == body = "data_id"

\* Array.isArray(response.data)
IsArray(body) == body = "data_array"

Statuses == {401, 403, 429, 500}

\* body of an error response; "undefined" when the response has none
ErrBodies == {"b1", "undefined"}

Response(kind, status, body) == [kind |-> kind, status |-> status, body |-> body]

NoResp == Response("-", 0, "-")

\* what the remote end can answer to a request to a target endpoint
HttpResponses ==
    { Response("ok", 200, b) : b \in OkBodies }
      \cup { Response("http", s, b) : s \in Statuses, b \in ErrBodies }
      \cup { Response("neterr", 0, "-") }

\* what the remote end can answer to an upload to /media/upload: a body with
\* media_id_string ("media_id"), one without, an error status, no answer
UploadResponses ==
    { Response("ok", 200, "media_id"), Response("ok", 200, "empty"),
      Response("http", 500, "b1"), Response("neterr", 0, "-") }

\* the answers to a request of the given XClient method
ResponsesTo(stage) == IF stage = "uploadMedia" THEN UploadResponses ELSE HttpResponses

\* what the remote end can answer to the OAuth 2.0 token request
TokenResponses == {"token", "no_token", "http_error", "network_error"}

\* client.ts:238-254: the advisory log line chosen by the status
Classify(status) ==
    CASE status = 401 -> "authentication"
      [] status = 403 -> "authorization"
      [] status = 429 -> "rate_limit"
      [] OTHER        -> "generic"

\* JSON.stringify of a response body: the JSON text of the value
Stringify(body) == <<"json", body>>

\* error.message of the AxiosError of a response with a non-2xx status
AxiosMessage(status) == <<"Request failed with status code", status>>

\* client.ts:256-260: JSON.stringify(error.response.data) || error.message
ErrorDetail(status, body) ==
    IF body = "undefined" THEN AxiosMessage(status) ELSE Stringify(body)

\* an error made from the classification instead of the response
ApiErrorClassified(status, body) ==
    IF Classify(status) = "generic"
    THEN [msg |-> "X API error", status |-> status, detail |-> ErrorDetail(status, body)]
    ELSE Err(Classify(status))

\* client.ts:256-260: the Error thrown for a response with a non-2xx status
ApiError(status, body) ==
    [msg |-> "X API error", status |-> status, detail |-> ErrorDetail(status, body)]

\* client.ts:232-263: the catch block of XClient.request
RequestError(resp) ==
    IF resp.kind = "http" THEN ApiError(resp.status, resp.body) ELSE ErrNetwork

-----------------------------------------------------------------------------
(* Tool parameters *)

\* The params object of a call: every field the facade reads, None when the
\* caller left it out.  Strings are "" or a text; poll option arrays are
\* <<1, .., n>>, option i standing for the i-th string.
Params(username, id, query, text, poll_options, options, duration_minutes) ==
    [username |-> username, id |-> id, query |-> query, text |-> text,
     poll_options |-> poll_options, options |-> options,
     duration_minutes |-> duration_minutes, media |-> None, limit |-> None]

NoParams == Params(None, None, None, None, None, None, None)

OptionArray(n) == [i \in 1..n |-> i]

\* JavaScript truthiness of an optional string
Truthy(field) == field # None /\ field[1] # ""

\* JavaScript truthiness of an optional number
TruthyNumber(field) == field # None /\ field[1] # 0

StringInputs == {None, Some("x")}

DurationInputs == {None, Some(4), Some(5), Some(10080), Some(10081)}

OptionInputs == {None} \cup { Some(OptionArray(n)) : n \in 1..MaxOptions }

\* plugin.ts:196-348: the parameters the schema of a tool marks as required
SchemaRequired(tool) ==
    CASE tool \in {"x_get_profile", "x_get_tweets"}            -> {"username"}
      [] tool \in {"x_get_tweet", "x_retweet", "x_like_tweet"} -> {"id"}
      [] tool = "x_search_tweets"                              -> {"query"}
      [] tool = "x_send_tweet"                                 -> {"text"}
      [] tool = "x_send_tweet_with_poll"                       -> {"text", "options", "duration_minutes"}
      [] tool = "x_get_trends"                                 -> {}

\* the params objects a caller passes to each tool
ParamsFor(tool) ==
    CASE tool \in {"x_get_profile", "x_get_tweets"} ->
            { [NoParams EXCEPT !.username = u] : u \in StringInputs }
      [] tool \in {"x_get_tweet", "x_retweet", "x_like_tweet"} ->
            { [NoParams EXCEPT !.id = i] : i \in StringInputs }
      [] tool = "x_search_tweets" ->
            { [NoParams EXCEPT !.query = q] : q \in StringInputs }
      [] tool = "x_send_tweet" ->
            { [NoParams EXCEPT !.text = t] : t \in StringInputs }
      [] tool = "x_send_tweet_with_poll" ->
            { [NoParams EXCEPT !.text = t, !.poll_options = o, !.duration_minutes = d] :
                 t \in {None, Some("x")}, o \in OptionInputs, d \in DurationInputs }
              \cup
            { [NoParams EXCEPT !.text = Some("x"), !.options = o, !.duration_minutes = Some(5)] :
                 o \in {Some(OptionArray(2))} }
      [] tool = "x_get_trends" ->
            { NoParams, [NoParams EXCEPT !.query = Some("x")] }

\* the params objects of the direct calls of the XPlugin methods: complete ones
DirectParamsFor(tool) ==
    IF tool = "x_send_tweet_with_poll"
    THEN { [NoParams EXCEPT !.text = Some("x"), !.poll_options = Some(OptionArray(2)),
                            !.duration_minutes = Some(5)] }
    ELSE { p \in ParamsFor(tool) : tool = "x_get_trends" \/ Truthy(p[RequiredField(MethodOf(tool))]) }

-----------------------------------------------------------------------------
(* Requests *)

\* What XClient.request is asked to send: the verb, the endpoint, the API
\* version flag, whether query parameters were passed, and the payload
\* (kind "none", "tweet", "poll" or "action"; a poll's option array and
\* duration_minutes).
Payload(kind, options, duration) ==
    [kind |-> kind, options |-> options, duration |-> duration, media_ids |-> None, file |-> 0]

\* client.ts:526, 566-568: the payload of a tweet; `media` only with media ids
TweetPayload(mediaIds) ==
    [Payload("tweet", <<>>, 0) EXCEPT !.media_ids = IF mediaIds = <<>> THEN None ELSE Some(mediaIds)]

\* client.ts:625-638: the form of the i-th media file of a tweet
FormPayload(i) == [Payload("form", <<>>, 0) EXCEPT !.file = i]

NoPayload == Payload("none", <<>>, 0)

\* params is the set of names of the `params` argument and max_results the
\* value of its max_results ("" without one); pathId is the id an endpoint
\* is built with ("-" without one); url, query, signed and body are
\* what is transmitted, filled in when the request is issued.
Request(method, endpoint, isV2, hasParams, data) ==
    [method |-> method, endpoint |-> endpoint, isV2 |-> isV2,
     hasParams |-> hasParams, data |-> data, auth |-> "-",
     params |-> {}, max_results |-> <<>>, pathId |-> "-",
     url |-> <<>>, query |-> {}, signed |-> {}, body |-> NoPayload]

\* Number.prototype.toString of an integer: its decimal digits, "-" first for
\* a negative one
RECURSIVE Digits(_)
Digits(n) ==
    LET d == <<"0", "1", "2", "3", "4", "5", "6", "7", "8", "9">>[(n % 10) + 1]
    IN  IF n < 10 THEN <<d>> ELSE Append(Digits(n \div 10), d)

NumberToString(n) == IF n < 0 THEN <<"-">> \o Digits(0 - n) ELSE Digits(n)

\* plugin.ts:433, 461  params.limit || 10
LimitOrDefault(limit) == IF TruthyNumber(limit) THEN limit[1] ELSE 10

\* a GET request with a `params` object: its property names, and the value of
\* max_results where it has one (client.ts:321, 397)
GetRequest(endpoint, params, max_results) ==
    [Request("GET", endpoint, TRUE, params # {}, NoPayload)
        EXCEPT !.params = params, !.max_results = max_results]

\* client.ts:276
ProfileParams == {"user.fields"}

\* client.ts:321-324
TweetsParams == {"max_results", "tweet.fields", "expansions", "media.fields"}

\* client.ts:349-352
TweetParams == {"tweet.fields", "expansions", "media.fields", "user.fields"}

\* client.ts:396-401
SearchParams == {"query", "max_results", "tweet.fields", "expansions", "media.fields", "user.fields"}

NoReq == Request("-", "-", FALSE, FALSE, NoPayload)

-----------------------------------------------------------------------------
(* One invocation *)

\* pc       where the invocation stands: "idle", at an await ("exec_init",
\*          "method_init", "token", "http"), or "done"
\* via      "tool" (through an executor of initializeTools) or "direct"
\* entryNull  this.client was null when the invocation began
\* inits    init() attempts made by this invocation
\* initErr  the error of an init() that threw and is not yet observed
\* dispatched / nullDispatch   the executor's switch called a domain
\*          operation / did so while this.client was null
\* used     the XClient objects this invocation called a method of
\* stage    the XClient method and step the pending request belongs to
\* req      the request in flight;  sent: the target requests issued so far
\* tokens   OAuth 2.0 token requests issued;  net: all HTTP requests issued
\* reqTokens / reqSent / oauth1   of the XClient.request invocation under
\*          way: token requests issued, target requests issued, OAuth 1.0a
\*          headers generated
\* tokenAnswer / tokenErr   the answer to its token request and the error
\*          caught for it at client.ts:165
\* files    the media files sendTweet has still to upload;  mediaIds: the
\*          ids of those uploaded so far
\* answers  the answers to the target requests issued so far, in order
\* resp     the last answer to a target request
\* thrown   the error XClient.request threw for it (NoErr if it returned)
\* logged   the classification logged for it
\* outcome  how the invocation ended
NoOutcome == [kind |-> "none", err |-> NoErr, val |-> NoVal]

IdleCall ==
    [pc |-> "idle", via |-> "-", tool |-> "-", params |-> NoParams,
     entryNull |-> FALSE, inits |-> 0, initErr |-> NoErr, dispatched |-> FALSE, nullDispatch |-> FALSE,
     used |-> {}, stage |-> "-", req |-> NoReq, sent |-> <<>>, tokens |-> 0, net |-> 0,
     reqTokens |-> 0, reqSent |-> 0, oauth1 |-> 0, tokenAnswer |-> "-", tokenErr |-> NoErr,
     files |-> <<>>, mediaIds |-> <<>>, answers |-> <<>>,
     resp |-> NoResp, thrown |-> NoErr, logged |-> "-", outcome |-> NoOutcome]

\* the invocation ends by throwing e
Throw(cr, e) ==
    [cr EXCEPT !.pc = "done", !.outcome = [kind |-> "thrown", err |-> e, val |-> NoVal]]

\* the invocation ends by returning v
Return(cr, v) ==
    [cr EXCEPT !.pc = "done", !.outcome = [kind |-> "returned", err |-> NoErr, val |-> v]]

-----------------------------------------------------------------------------
(* XClient.request *)

\* how XClient.request ended: it returned the response body, or threw
ReqOk(body) == [ok |-> TRUE, body |-> body, err |-> NoErr]

ReqFail(e) == [ok |-> FALSE, body |-> "-", err |-> e]

\* how a method of XClient ended
Ret(v) == [kind |-> "ret", val |-> v, err |-> NoErr]

Thr(e) == [kind |-> "throw", val |-> NoVal, err |-> e]

\* client.ts:19-20, 118
BaseUrl(isV2) == IF isV2 THEN "https://api.twitter.com/2" ELSE "https://api.twitter.com/1.1"

\* client.ts:119  `${baseUrl}${endpoint}`
Url(isV2, endpoint) == <<BaseUrl(isV2), endpoint>>

\* client.ts:124-127: the names in the query string of the URL
QueryString(method, params) == IF params # {} /\ method = "GET" THEN params ELSE {}

\* client.ts:52-59
OAuthParamNames ==
    {"oauth_consumer_key", "oauth_nonce", "oauth_signature_method",
     "oauth_timestamp", "oauth_token", "oauth_version"}

\* client.ts:173, 182 and 62: the names of allParams in generateAuthHeader
SignedParamNames(method, params) ==
    (IF method = "GET" THEN params ELSE {}) \cup OAuthParamNames

\* a request that sends its data with every method
RequestBodyAnyMethod(method, data) == data

\* client.ts:217  data: method !== 'GET' ? data : undefined
RequestBody(method, data) == IF method # "GET" THEN data ELSE NoPayload

\* an exchange attempted with a client id or a client secret alone
UseOAuth2EitherCredential(cfg, isV2) == (cfg.clientId \/ cfg.clientSecret) /\ isV2

\* client.ts:132  if (this.clientId && this.clientSecret && isV2)
UseOAuth2(cfg, isV2) == cfg.clientId /\ cfg.clientSecret /\ isV2

\* client.ts:191  if (!this.apiKey || !this.apiSecret) throw
CredentialsMissing(cfg) == ~cfg.apiKey \/ ~cfg.apiSecret

\* client.ts:153-178: the Authorization scheme after the token request
AuthAfterToken(answer) == IF answer = "token" THEN "bearer" ELSE "oauth1"

\* client.ts:141-163: what the try block of the token exchange throws: the
\* AxiosError of the token request, or 'Failed to obtain bearer token'
TokenError(answer) ==
    CASE answer = "token"         -> NoErr
      [] answer = "no_token"      -> Err("Failed to obtain bearer token")
      [] answer = "http_error"    -> Err("token request failed with status code")
      [] answer = "network_error" -> Err("token request: network error")

-----------------------------------------------------------------------------
(* XClient methods: what each makes of the outcome of its request *)

\* a getProfile that throws for a user the remote API does not know
ClientGetProfileResultThrows(res) ==
    IF res.ok /\ HasData(res.body)
    THEN Ret([Val("profile") EXCEPT !.id = IF HasId(res.body) THEN RemoteId ELSE "undefined"])
    ELSE Thr(IF res.ok THEN Err("User not found") ELSE res.err)

\* client.ts:281-302
ClientGetProfileResult(res) ==
    IF res.ok
    THEN IF HasData(res.body)
         THEN Ret([Val("profile") EXCEPT !.id = IF HasId(res.body) THEN RemoteId ELSE "undefined"])
         ELSE Ret(Val("null"))
    ELSE Thr(res.err)

\* a listing that throws where its request threw
ClientTweetListResultThrows(res) ==
    IF res.ok
    THEN IF HasData(res.body) /\ IsArray(res.body) THEN Ret(Val("tweets")) ELSE Ret(Val("empty_array"))
    ELSE Thr(res.err)

\* client.ts:329-337 and 406-414
ClientTweetListResult(res) ==
    IF res.ok /\ HasData(res.body) /\ IsArray(res.body)
    THEN Ret(Val("tweets"))
    ELSE Ret(Val("empty_array"))

\* client.ts:357-366
ClientGetTweetResult(res) ==
    IF res.ok /\ HasData(res.body) THEN Ret(Val("tweet")) ELSE Ret(Val("null"))

\* a sendTweet that returns null where the request threw
ClientSendTweetResultSwallow(res) ==
    IF res.ok /\ HasData(res.body) /\ HasId(res.body)
    THEN Ret([Val("string") EXCEPT !.id = RemoteId])
    ELSE Ret(Val("null"))

\* client.ts:575-617
ClientSendTweetResult(res) ==
    IF res.ok
    THEN IF HasData(res.body) /\ HasId(res.body)
         THEN Ret([Val("string") EXCEPT !.id = RemoteId])
         ELSE Ret(Val("null"))
    ELSE Thr(res.err)

\* an uploadMedia that throws where its request threw
ClientUploadMediaResultThrows(res) ==
    IF res.ok
    THEN IF res.body = "media_id" THEN Ret(Val("string")) ELSE Ret(Val("null"))
    ELSE Thr(res.err)

\* client.ts:648-652: response.media_id_string || null, null from the catch
ClientUploadMediaResult(res) ==
    IF res.ok /\ res.body = "media_id" THEN Ret(Val("string")) ELSE Ret(Val("null"))

\* client.ts:692-696
ClientSendTweetWithPollResult(res) ==
    IF res.ok /\ HasId(res.body)
    THEN Ret([Val("string") EXCEPT !.id = RemoteId])
    ELSE Ret(Val("null"))

\* client.ts:707-719 and 730-742
ClientActionResult(res) == Ret(Bool(res.ok))

\* client.ts:669  the option count the client accepts
ClientPollOptionsInvalid(options) == Len(options) < 2 \/ Len(options) > 4

\* client.ts:674  Math.max(5, Math.min(poll.durationMinutes, 10080))
PollDuration(durationMinutes) ==
    LET capped == IF durationMinutes < 10080 THEN durationMinutes ELSE 10080
    IN  IF capped > 5 THEN capped ELSE 5

ClientResult(stage, res) ==
    CASE stage = "getProfile"        -> ClientGetProfileResult(res)
      [] stage = "getTweets.tweets"  -> ClientTweetListResult(res)
      [] stage = "searchTweets"      -> ClientTweetListResult(res)
      [] stage = "getTweet"          -> ClientGetTweetResult(res)
      [] stage = "sendTweet"         -> ClientSendTweetResult(res)
      [] stage = "sendTweetWithPoll" -> ClientSendTweetWithPollResult(res)
      [] stage = "retweet"           -> ClientActionResult(res)
      [] stage = "likeTweet"         -> ClientActionResult(res)

-----------------------------------------------------------------------------
(* XPlugin methods: what each makes of the outcome of the XClient method *)

\* plugin.ts:483-507
PluginSendTweetResult(co) ==
    IF co.kind = "throw"
    THEN Ret(Envelope(FALSE, "absent", co.err))
    ELSE IF co.val.kind = "string"
         THEN Ret(Envelope(TRUE, co.val.id, NoErr))
         ELSE Ret(Envelope(TRUE, "null", NoErr))

\* plugin.ts:524-553
PluginSendTweetWithPollResult(co) ==
    IF co.kind = "throw"
    THEN Ret(Envelope(FALSE, "absent", co.err))
    ELSE IF co.val.kind = "string"
         THEN Ret(Envelope(TRUE, co.val.id, NoErr))
         ELSE Ret(Envelope(TRUE, "null", NoErr))

\* plugin.ts:566 and 579: return await this.client.retweet(id)
PluginActionResult(co) == co

\* plugin.ts:420, 433, 446, 459: return await this.client.<method>(...)
PluginReadResult(co) == co

PluginResult(method, co) ==
    CASE method = "sendTweet"                 -> PluginSendTweetResult(co)
      [] method = "sendTweetWithPoll"         -> PluginSendTweetWithPollResult(co)
      [] method \in {"retweet", "likeTweet"}  -> PluginActionResult(co)
      [] OTHER                                -> PluginReadResult(co)

\* The invocation ends with what the XPlugin method makes of the XClient
\* method's outcome.  The executor's try/catch (plugin.ts:148-155) rethrows an
\* Error unchanged, and the result is never the params object itself.
Finish(cr, co) ==
    LET fo == PluginResult(MethodOf(cr.tool), co)
    IN  IF fo.kind = "throw" THEN Throw(cr, fo.err) ELSE Return(cr, fo.val)

-----------------------------------------------------------------------------
(* The steps of XClient.request and of the XClient methods around it *)

RECURSIVE RequestDone(_, _, _)
RECURSIVE UploadNext(_, _)

\* client.ts:189-218: the request to the target endpoint is issued
SendTarget(cfg, cr, auth) ==
    IF CredentialsMissing(cfg)
    THEN RequestDone(cfg, [cr EXCEPT !.thrown = ErrCredentials], ReqFail(ErrCredentials))
    ELSE LET rq   == cr.req
             wire == [rq EXCEPT !.auth = auth,
                                !.url = Url(rq.isV2, rq.endpoint),
                                !.query = QueryString(rq.method, rq.params),
                                !.signed = IF auth = "oauth1"
                                           THEN SignedParamNames(rq.method, rq.params)
                                           ELSE {},
                                !.body = RequestBody(rq.method, rq.data)]
         IN  [cr EXCEPT !.pc = "http",
                    !.req = wire,
                    !.sent = Append(@, wire),
                    !.reqSent = @ + 1,
                    !.net = @ + 1]

\* client.ts:111-187: XClient.request up to its first await
StartRequest(cfg, cr, stage, rq) ==
    LET c1 == [cr EXCEPT !.stage = stage, !.req = rq, !.reqTokens = 0, !.reqSent = 0,
                         !.oauth1 = 0, !.tokenAnswer = "-", !.tokenErr = NoErr]
    IN  IF UseOAuth2(cfg, rq.isV2)
        THEN [c1 EXCEPT !.pc = "token", !.tokens = @ + 1, !.reqTokens = @ + 1, !.net = @ + 1]
        ELSE SendTarget(cfg, [c1 EXCEPT !.oauth1 = @ + 1], "oauth1")

\* XClient.request has returned or thrown: the XClient method goes on
RequestDone(cfg, cr, res) ==
    IF cr.stage = "getTweets.profile"
    THEN \* client.ts:311-327
         LET user == ClientGetProfileResult(res)
         IN  IF user.kind = "ret" /\ user.val.kind = "profile"
             THEN StartRequest(cfg, cr, "getTweets.tweets",
                               [GetRequest("/users/:id/tweets", TweetsParams,
                                           NumberToString(LimitOrDefault(cr.params.limit)))
                                   EXCEPT !.pathId = user.val.id])
             ELSE Finish(cr, Ret(Val("empty_array")))
    ELSE IF cr.stage = "request"
    THEN \* XClient.request called by itself: client.ts:231, 256-262
         IF res.ok THEN Return(cr, Val("body")) ELSE Throw(cr, res.err)
    ELSE IF cr.stage = "uploadMedia"
    THEN \* client.ts:541-548; an error thrown there is rethrown at 600-617
         LET mediaId == ClientUploadMediaResult(res)
         IN  IF mediaId.kind = "throw"
             THEN Finish(cr, Thr(mediaId.err))
             ELSE UploadNext(cfg, IF mediaId.val.kind = "string"
                                  THEN [cr EXCEPT !.mediaIds = Append(@, cr.req.data.file)]
                                  ELSE cr)
    ELSE Finish(cr, ClientResult(cr.stage, res))

\* a request that is issued once more when its first answer is a failure
RequestAnsweredRetry(cfg, cr, resp) ==
    LET res == IF resp.kind = "ok" THEN ReqOk(resp.body) ELSE ReqFail(RequestError(resp))
        c1  == [cr EXCEPT !.resp = resp,
                          !.thrown = res.err,
                          !.logged = IF resp.kind = "http" THEN Classify(resp.status) ELSE "-"]
    IN  IF ~res.ok /\ cr.reqSent < 2
        THEN [c1 EXCEPT !.sent = Append(@, cr.req), !.reqSent = @ + 1, !.net = @ + 1]
        ELSE RequestDone(cfg, c1, res)

\* client.ts:213-263: the answer to the target request arrives: request
\* returns response.data, or logs the classification and throws
RequestAnswered(cfg, cr, resp) ==
    LET res == IF resp.kind = "ok" THEN ReqOk(resp.body) ELSE ReqFail(RequestError(resp))
        c1  == [cr EXCEPT !.resp = resp,
                          !.thrown = res.err,
                          !.logged = IF resp.kind = "http" THEN Classify(resp.status) ELSE "-"]
    IN  RequestDone(cfg, c1, res)

\* client.ts:533-571: the loop over the media files of a tweet, then the
\* request of the tweet.  The i-th file is uploaded with a request to
\* /media/upload (client.ts:640-646, a v1.1 endpoint); without path and buffer
\* uploadMedia throws and catches (client.ts:636-651) and the file is skipped.
UploadNext(cfg, cr) ==
    IF cr.files = <<>>
    THEN StartRequest(cfg, cr, "sendTweet",
                      Request("POST", "/tweets", TRUE, FALSE, TweetPayload(cr.mediaIds)))
    ELSE LET i    == Len(cr.params.media[1]) - Len(cr.files) + 1
             rest == [cr EXCEPT !.files = Tail(@)]
         IN  IF Head(cr.files) = "none"
             THEN UploadNext(cfg, rest)
             ELSE StartRequest(cfg, rest, "uploadMedia",
                               Request("POST", "/media/upload", FALSE, FALSE, FormPayload(i)))

\* a token exchange whose failure is thrown to the caller of request
TokenDoneThrows(cfg, cr, answer) ==
    LET c1 == [cr EXCEPT !.tokenAnswer = answer, !.tokenErr = TokenError(answer)]
    IN  IF answer = "token"
        THEN SendTarget(cfg, c1, "bearer")
        ELSE RequestDone(cfg, [c1 EXCEPT !.thrown = TokenError(answer)],
                         ReqFail(TokenError(answer)))

\* client.ts:151-178: XClient.request after the answer to its token request:
\* the bearer header, or the catch block that generates the OAuth 1.0a header
TokenDone(cfg, cr, answer) ==
    LET c1 == [cr EXCEPT !.tokenAnswer = answer, !.tokenErr = TokenError(answer)]
    IN  IF answer = "token"
        THEN SendTarget(cfg, c1, AuthAfterToken(answer))
        ELSE SendTarget(cfg, [c1 EXCEPT !.oauth1 = @ + 1], AuthAfterToken(answer))

\* client.ts:665-690: XClient.sendTweetWithPoll up to its request
ClientSendTweetWithPoll(cfg, cr, options, durationMinutes) ==
    IF ClientPollOptionsInvalid(options)
    THEN \* thrown inside the try, caught at client.ts:693, null returned
         Finish([cr EXCEPT !.stage = "sendTweetWithPoll"], Ret(Val("null")))
    ELSE StartRequest(cfg, cr, "sendTweetWithPoll",
                      Request("POST", "/tweets", TRUE, FALSE,
                              Payload("poll", options, PollDuration(durationMinutes))))

-----------------------------------------------------------------------------
(* The bodies of the XPlugin methods, after their check of this.client *)

\* plugin.ts:519  !poll_options || !Array.isArray(poll_options) || length < 2
PollOptionsInvalid(poll_options) == poll_options = None \/ Len(poll_options[1]) < 2

\* plugin.ts:526  duration_minutes || 1440
DefaultDuration(duration_minutes) ==
    IF TruthyNumber(duration_minutes) THEN duration_minutes[1] ELSE 1440

\* no check of the required parameter
ParamMissingNever(p, field) == FALSE

\* plugin.ts:418, 431, 444, 457, 474, 518, 564, 577  if (!username) throw ...
ParamMissing(p, field) == ~Truthy(p[field])

\* a getTrends that returns an empty list
PluginGetTrendsEmpty(cr) == Return(cr, Val("empty_array"))

\* plugin.ts:589: the body of getTrends
PluginGetTrends(cr) == Throw(cr, ErrNotImplemented)

\* plugin.ts:417-420, 430-433, 443-446, 456-463, 472-483, 516-527, 563-566,
\* 576-579, 589
PluginBody(cfg, cl, cr) ==
    LET m  == MethodOf(cr.tool)
        p  == cr.params
        c1 == [cr EXCEPT !.used = @ \cup {cl}]
    IN  IF m = "getTrends" THEN PluginGetTrends(cr)
        ELSE IF ParamMissing(p, RequiredField(m)) THEN Throw(cr, Err(MissingMessage(m)))
        ELSE IF m = "getProfile" THEN
            StartRequest(cfg, c1, "getProfile",
                         GetRequest("/users/by/username/:username", ProfileParams, <<>>))
        ELSE IF m = "getTweets" THEN
            StartRequest(cfg, c1, "getTweets.profile",
                         GetRequest("/users/by/username/:username", ProfileParams, <<>>))
        ELSE IF m = "getTweet" THEN
            StartRequest(cfg, c1, "getTweet",
                         GetRequest("/tweets/:id", TweetParams, <<>>))
        ELSE IF m = "searchTweets" THEN
            StartRequest(cfg, c1, "searchTweets",
                         GetRequest("/tweets/search/recent", SearchParams,
                                    NumberToString(LimitOrDefault(p.limit))))
        ELSE IF m = "sendTweet" THEN
            \* plugin.ts:477-483, client.ts:533
            IF p.media # None /\ Len(p.media[1]) > 0
            THEN UploadNext(cfg, [c1 EXCEPT !.files = p.media[1]])
            ELSE StartRequest(cfg, c1, "sendTweet",
                              Request("POST", "/tweets", TRUE, FALSE, TweetPayload(<<>>)))
        ELSE IF m = "sendTweetWithPoll" THEN
            IF PollOptionsInvalid(p.poll_options)
            THEN Throw(cr, ErrPollOptions)
            ELSE ClientSendTweetWithPoll(cfg, c1, p.poll_options[1],
                                         DefaultDuration(p.duration_minutes))
        ELSE IF m = "retweet" THEN
            StartRequest(cfg, c1, "retweet",
                         Request("POST", "/retweets", TRUE, FALSE, Payload("action", <<>>, 0)))
        ELSE
            StartRequest(cfg, c1, "likeTweet",
                         Request("POST", "/likes", TRUE, FALSE, Payload("action", <<>>, 0)))

-----------------------------------------------------------------------------
(* The tool registry *)

Tool(name, execute) == [name |-> name, execute |-> execute]

HasKey(m, name) == \E i \in 1..Len(m) : m[i].name = name

\* a map that takes every set for a new key
MapSetAppend(m, name, execute) == Append(m, Tool(name, execute))

\* Map.prototype.set: an existing key keeps its place, a new key goes last
MapSet(m, name, execute) ==
    IF HasKey(m, name)
    THEN [i \in 1..Len(m) |-> IF m[i].name = name THEN Tool(name, execute) ELSE m[i]]
    ELSE Append(m, Tool(name, execute))

\* Map.prototype.delete
MapDelete(m, name) == SelectSeq(m, LAMBDA e : e.name # name)

\* plugin.ts:378: the value Map.prototype.delete returns
MapDeleted(m, name) == HasKey(m, name)

\* a removeTool that reports success whatever the map held
removeToolResultAlwaysTrue(m, listed, name) ==
    [returned |-> TRUE, tools |-> MapDelete(m, name), config |-> MapDelete(m, name)]

\* plugin.ts:377-386: removeTool(name) on the tools map m with config.tools
\* listed: the value it returns, the map and the config.tools it leaves
removeToolResult(m, listed, name) ==
    LET removed == MapDeleted(m, name)
    IN  [returned |-> removed,
         tools    |-> MapDelete(m, name),
         config   |-> IF removed THEN MapDelete(m, name) ELSE listed]

RECURSIVE SetAll(_, _)
\* plugin.ts:93-161: the loop over the manifests
SetAll(m, names) ==
    IF names = <<>> THEN m ELSE SetAll(MapSet(m, Head(names), "catalog"), Tail(names))

\* an initializeTools that starts from an empty map
initializeToolsFresh(m) == SetAll(<<>>, getChatManifests)

\* plugin.ts:89-165: the tools map after initializeTools
initializeTools(m) == SetAll(m, getChatManifests)

\* plugin.ts:353-355: getTools(), Array.from(this.tools.values())
getTools(m) == m

\* plugin.ts:360-362: getTool(name), this.tools.get(name); None for undefined
getTool(m, name) ==
    IF HasKey(m, name) THEN Some(m[CHOOSE i \in 1..Len(m) : m[i].name = name]) ELSE None

-----------------------------------------------------------------------------
(* The facade and one invocation together: w.cr is the invocation taking the
   step, the other fields are the fields of the XPlugin object *)

World(cr) == [client |-> client, built |-> built, tools |-> tools, config |-> config, cr |-> cr]

\* an executor that never initializes lazily
NeedsInitNever(cl) == FALSE

\* an executor that initializes on every call
NeedsInitAlways(cl) == TRUE

\* plugin.ts:100, 414, 427, ...  if (!this.client) await this.init()
NeedsInit(cl) == cl = Null

\* plugin.ts:101, 415, 470, ...  if (!this.client) throw
ClientMissing(cl) == cl = Null

\* the XPlugin methods that initialize lazily (sendTweet and sendTweetWithPoll
\* only check this.client, plugin.ts:470 and 514)
LazyInitMethods ==
    {"getProfile", "getTweets", "getTweet", "searchTweets", "retweet", "likeTweet", "getTrends"}

\* an init() that builds the XClient and does not keep it
initDiscardsClient(w) ==
    IF InitThrows(xConfig)
    THEN [w EXCEPT !.cr.inits = @ + 1, !.cr.initErr = ErrCredentials]
    ELSE [w EXCEPT !.built = w.built + 1,
                   !.tools = initializeTools(w.tools),
                   !.config = initializeTools(w.tools),
                   !.cr.inits = @ + 1]

\* plugin.ts:46-76: XPlugin.init, called by the invocation w.cr
init(w) ==
    IF InitThrows(xConfig)
    THEN [w EXCEPT !.cr.inits = @ + 1, !.cr.initErr = ErrCredentials]
    ELSE [w EXCEPT !.client = w.built + 1,
                   !.built = w.built + 1,
                   !.tools = initializeTools(w.tools),
                   !.config = initializeTools(w.tools),
                   !.cr.inits = @ + 1]

\* an XPlugin method after its first line
MethodBody(w) ==
    IF ClientMissing(w.client)
    THEN [w EXCEPT !.cr = Throw(w.cr, ErrNotInitialized)]
    ELSE [w EXCEPT !.cr = PluginBody(xConfig, w.client, w.cr)]

\* an XPlugin method is called: plugin.ts:414, 427, 440, 453, 470, 514, 560,
\* 573, 586
EnterMethod(w) ==
    IF MethodOf(w.cr.tool) \in LazyInitMethods /\ NeedsInit(w.client)
    THEN [init(w) EXCEPT !.cr.pc = "method_init"]
    ELSE MethodBody(w)

\* plugin.ts:104-138: the switch of the executor calls the XPlugin method
Dispatch(w) ==
    EnterMethod([w EXCEPT !.cr.dispatched = TRUE, !.cr.nullDispatch = (w.client = Null)])

\* plugin.ts:101
ExecCheck(w) ==
    IF ClientMissing(w.client)
    THEN [w EXCEPT !.cr = Throw(w.cr, ErrNotInitialized)]
    ELSE Dispatch(w)

\* plugin.ts:98-100: the executor is called
ExecEntry(w) ==
    IF NeedsInit(w.client)
    THEN [init(w) EXCEPT !.cr.pc = "exec_init"]
    ELSE ExecCheck(w)

\* the step of caller c leaves the facade and the invocation as in w
Becomes(c, w) ==
    /\ client' = w.client
    /\ built' = w.built
    /\ tools' = w.tools
    /\ config' = w.config
    /\ call' = [call EXCEPT ![c] = w.cr]
    /\ UNCHANGED <<xConfig, normalizerVars, signerVars>>

-----------------------------------------------------------------------------
(* XClient.processTweets: the raw API response and its normalization *)

\* most primary tweets in the `data` array of a response
MaxTweets == 2

\* a tweet of the API: author_id, attachments.media_keys and referenced_tweets
\* are optional
RawTweet(id, text, author_id, media_keys, referenced_tweets) ==
    [id |-> id, text |-> text, author_id |-> author_id, media_keys |-> media_keys,
     referenced_tweets |-> referenced_tweets]

\* an entry of referenced_tweets
Ref(type, id) == [type |-> type, id |-> id]

\* the entries of includes.users, includes.media and includes.tweets
RawUser(id, username, name, profile_image_url) ==
    [id |-> id, username |-> username, name |-> name, profile_image_url |-> profile_image_url]

RawMedia(media_key, type, url, preview_image_url) ==
    [media_key |-> media_key, type |-> type, url |-> url, preview_image_url |-> preview_image_url]

\* response.includes: each of the three side tables is optional
Includes(media, tweets, users) == [media |-> media, tweets |-> tweets, users |-> users]

\* the response: data is an array ("array"), one object ("object", items of
\* length one) or missing ("undefined"); includes is optional
RawResponse(kind, items, includes) == [kind |-> kind, items |-> items, includes |-> includes]

NoResponse == RawResponse("-", <<>>, None)

\* the XTweet fields that depend on the response beyond the tweet itself;
\* media is a sequence of [type, url], the statuses are optional
XTweet(id, text, user, media, refs) ==
    [id |-> id, text |-> text, username |-> user.username, displayName |-> user.displayName,
     profileImageUrl |-> user.profileImageUrl, media |-> media,
     retweetedStatus |-> refs.retweetedStatus, quotedStatus |-> refs.quotedStatus,
     inReplyToStatusId |-> refs.inReplyToStatusId]

ReferencedStatus(id, text, username) == [id |-> id, text |-> text, username |-> username]

\* how processTweets ended: it returned tweets, or raised a TypeError
Processed(raised, tweets) == [done |-> TRUE, raised |-> raised, tweets |-> tweets]

NotProcessed == [done |-> FALSE, raised |-> FALSE, tweets |-> <<>>]

\* client.ts:425-446: a Map filled by forEach(set): the entry a key maps to is
\* the last one of the side table with that key
MapGet(table, key, k) ==
    LET at == { i \in 1..Len(table) : table[i][key] = k }
    IN  IF at = {} THEN None
        ELSE Some(table[CHOOSE i \in at : \A j \in at : j <= i])

\* response.includes?.media and the like: the side table, empty when absent
SideTable(includes, field) ==
    IF includes = None \/ includes[1][field] = None THEN <<>> ELSE includes[1][field][1]

\* a media list with a placeholder for a key the media table does not know
MediaItemsUnfiltered(media_keys, mediaTable) ==
    [j \in 1..Len(media_keys) |->
        LET media == MapGet(mediaTable, "media_key", media_keys[j])
        IN  IF media = None THEN [type |-> "unknown", url |-> None]
            ELSE [type |-> media[1].type,
                  url  |-> IF Truthy(media[1].url) THEN media[1].url
                           ELSE media[1].preview_image_url]]

RECURSIVE MediaItems(_, _)
\* client.ts:454-465: the media of the keys the media table knows, in order
MediaItems(media_keys, mediaTable) ==
    IF media_keys = <<>> THEN <<>>
    ELSE LET media == MapGet(mediaTable, "media_key", Head(media_keys))
             rest  == MediaItems(Tail(media_keys), mediaTable)
         IN  IF media = None THEN rest
             ELSE <<[type |-> media[1].type,
                     url  |-> IF Truthy(media[1].url) THEN media[1].url
                              ELSE media[1].preview_image_url]>> \o rest

\* a referenced status that names the author of the referenced tweet
StatusUsernameOfAuthor(username, refTweet) ==
    IF refTweet.author_id = None THEN "unknown" ELSE refTweet.author_id[1]

\* client.ts:479, 485: `username: username, // This is an approximation`
StatusUsername(username, refTweet) == username

RECURSIVE References(_, _, _, _)
\* client.ts:472-491: the loop over referenced_tweets; acc holds
\* retweetedStatus, quotedStatus and inReplyToStatusId so far
References(refs, tweetTable, username, acc) ==
    IF refs = <<>> THEN acc
    ELSE LET ref      == Head(refs)
             refTweet == MapGet(tweetTable, "id", ref.id)
             next     ==
                 IF ref.type = "retweeted" /\ refTweet # None
                 THEN [acc EXCEPT !.retweetedStatus =
                          Some(ReferencedStatus(refTweet[1].id, refTweet[1].text,
                                                StatusUsername(username, refTweet[1])))]
                 ELSE IF ref.type = "quoted" /\ refTweet # None
                 THEN [acc EXCEPT !.quotedStatus =
                          Some(ReferencedStatus(refTweet[1].id, refTweet[1].text,
                                                StatusUsername(username, refTweet[1])))]
                 ELSE IF ref.type = "replied_to"
                 THEN [acc EXCEPT !.inReplyToStatusId = Some(ref.id)]
                 ELSE acc
         IN  References(Tail(refs), tweetTable, username, next)

\* client.ts:448-508: one pass of the loop over the primary tweets
NormalizeTweet(tweet, includes) ==
    LET user     == IF tweet.author_id = None THEN None
                    ELSE MapGet(SideTable(includes, "users"), "id", tweet.author_id[1])
        username == IF user # None THEN user[1].username ELSE "unknown"
        refs     == References(IF tweet.referenced_tweets = None THEN <<>>
                               ELSE tweet.referenced_tweets[1],
                               SideTable(includes, "tweets"), username,
                               [retweetedStatus |-> None, quotedStatus |-> None,
                                inReplyToStatusId |-> None])
    IN  XTweet(tweet.id, tweet.text,
               [username        |-> username,
                displayName     |-> IF user # None THEN user[1].name ELSE "Unknown User",
                profileImageUrl |-> IF user # None THEN user[1].profile_image_url ELSE ""],
               MediaItems(IF tweet.media_keys = None THEN <<>> ELSE tweet.media_keys[1],
                          SideTable(includes, "media")),
               refs)

RECURSIVE Dedup(_, _)
\* the tweets without those whose id an earlier one has
Dedup(tweets, seen) ==
    IF tweets = <<>> THEN <<>>
    ELSE IF Head(tweets).id \in seen THEN Dedup(Tail(tweets), seen)
    ELSE <<Head(tweets)>> \o Dedup(Tail(tweets), seen \cup {Head(tweets).id})

\* a normalization that keeps one tweet per id
processTweetsDedup(resp) ==
    IF resp.kind = "undefined"
    THEN Processed(TRUE, <<>>)
    ELSE Processed(FALSE, Dedup([i \in 1..Len(resp.items) |->
                                    NormalizeTweet(resp.items[i], resp.includes)], {}))

\* a normalization that reads the side tables of a response without includes
processTweetsNeedsIncludes(resp) ==
    IF resp.kind = "undefined" \/ resp.includes = None
    THEN Processed(TRUE, <<>>)
    ELSE Processed(FALSE, [i \in 1..Len(resp.items) |->
                              NormalizeTweet(resp.items[i], resp.includes)])

\* client.ts:420-512: processTweets.  `[response.data]` of a response without
\* data is [undefined], and the loop raises a TypeError on tweet.author_id
processTweets(resp) ==
    IF resp.kind = "undefined"
    THEN Processed(TRUE, <<>>)
    ELSE Processed(FALSE, [i \in 1..Len(resp.items) |-> NormalizeTweet(resp.items[i], resp.includes)])

-----------------------------------------------------------------------------
(* XClient.generateAuthHeader.  A string is the sequence of its characters; a
   JavaScript object with string keys (none of them an array index) is the
   sequence of its [k, v] properties in insertion order. *)

\* most query parameters of a request
MaxParams == 3

\* the characters in use, in the order of their UTF-16 code units
Alphabet ==
    <<" ", "%", "&", ",", ".", "/", "0", "1", "2", "3", "5", "6", ":", "=", "A", "C", "D", "F",
      "_", "a", "b", "c", "d", "e", "f", "g", "h", "i", "k", "l", "m", "n", "o", "p", "q",
      "r", "s", "t", "u", "v", "x", "y", "z">>

\* the rank of a character's code unit
Code(ch) == CHOOSE i \in 1..Len(Alphabet) : Alphabet[i] = ch

RECURSIVE LexLess(_, _)
\* s < t for strings, as Array.prototype.sort compares them without a
\* comparator: by code units, a proper prefix first
LexLess(s, t) ==
    IF t = <<>> THEN FALSE
    ELSE IF s = <<>> THEN TRUE
    ELSE IF Head(s) = Head(t) THEN LexLess(Tail(s), Tail(t))
    ELSE Code(Head(s)) < Code(Head(t))

\* encodeURIComponent, character by character: an escaped character is kept
\* as one element "%XX" of the sequence, whose "%" a second encoding escapes
Escapes ==
    [ch \in {" ", "%", "&", ",", "/", ":", "=", "%20", "%2C", "%2F", "%3A"} |->
        CASE ch = " "   -> "%20"
          [] ch = "%"   -> "%25"
          [] ch = "&"   -> "%26"
          [] ch = ","   -> "%2C"
          [] ch = "/"   -> "%2F"
          [] ch = ":"   -> "%3A"
          [] ch = "="   -> "%3D"
          [] ch = "%20" -> "%2520"
          [] ch = "%2C" -> "%252C"
          [] ch = "%2F" -> "%252F"
          [] ch = "%3A" -> "%253A"]

encodeURIComponent(str) ==
    [i \in 1..Len(str) |-> IF str[i] \in DOMAIN Escapes THEN Escapes[str[i]] ELSE str[i]]

Prop(k, v) == [k |-> k, v |-> v]

\* Object.keys(obj)
ObjectKeys(obj) == [i \in 1..Len(obj) |-> obj[i].k]

\* obj[k], for a key the object has
ObjGet(obj, k) == (CHOOSE i \in 1..Len(obj) : obj[i].k = k)

\* obj[k] = v: a property the object has keeps its place
ObjSet(obj, k, v) ==
    IF \E i \in 1..Len(obj) : obj[i].k = k
    THEN [i \in 1..Len(obj) |-> IF obj[i].k = k THEN Prop(k, v) ELSE obj[i]]
    ELSE Append(obj, Prop(k, v))

RECURSIVE Spread(_, _)
\* client.ts:60  { ...a, ...b }
Spread(a, b) == IF b = <<>> THEN a ELSE Spread(ObjSet(a, Head(b).k, Head(b).v), Tail(b))

RECURSIVE SortInsert(_, _)
SortInsert(sorted, k) ==
    IF sorted = <<>> THEN <<k>>
    ELSE IF LexLess(k, Head(sorted)) THEN <<k>> \o sorted
    ELSE <<Head(sorted)>> \o SortInsert(Tail(sorted), k)

RECURSIVE SortFold(_, _)
SortFold(sorted, keys) ==
    IF keys = <<>> THEN sorted ELSE SortFold(SortInsert(sorted, Head(keys)), Tail(keys))

\* keys left in the order of their insertion
SortKeysNot(keys) == keys

\* client.ts:61-62  Object.keys(allParams).sort()
SortKeys(keys) == SortFold(<<>>, keys)

RECURSIVE Join(_, _)
\* Array.prototype.join
Join(parts, sep) ==
    IF parts = <<>> THEN <<>>
    ELSE IF Len(parts) = 1 THEN parts[1]
    ELSE parts[1] \o sep \o Join(Tail(parts), sep)

\* createHmac('sha1', key).update(base).digest('base64'): a function of the
\* key and the text, taken to be free of collisions
HmacSha1Base64(key, base) == [hmac |-> "sha1", key |-> key, base |-> base]

\* the credentials of the XClient (client.ts:25-39) of a configuration
ApiKey == <<"k">>
ApiSecret == <<"s">>
AccessToken(cfg) == IF cfg.accessToken THEN <<"t">> ELSE <<>>
AccessSecret(cfg) == IF cfg.accessSecret THEN <<"z">> ELSE <<>>

\* client.ts:52-59
OAuthParams(cfg, nonce, timestamp) ==
    <<Prop(<<"o","a","u","t","h","_","c","o","n","s","u","m","e","r","_","k","e","y">>, ApiKey),
      Prop(<<"o","a","u","t","h","_","n","o","n","c","e">>, nonce),
      Prop(<<"o","a","u","t","h","_","s","i","g","n","a","t","u","r","e","_","m","e","t","h","o","d">>,
           <<"H","M","A","C","-","S","H","A","1">>),
      Prop(<<"o","a","u","t","h","_","t","i","m","e","s","t","a","m","p">>, timestamp),
      Prop(<<"o","a","u","t","h","_","t","o","k","e","n">>, AccessToken(cfg)),
      Prop(<<"o","a","u","t","h","_","v","e","r","s","i","o","n">>, <<"1",".","0">>)>>

\* client.ts:44-106: the values generateAuthHeader computes on the way to the
\* header, for a nonce and timestamp as drawn at lines 49-50
generateAuthHeader(cfg, method, url, params, nonce, timestamp) ==
    LET allParams     == Spread(params, OAuthParams(cfg, nonce, timestamp))
        sortedKeys    == SortKeys(ObjectKeys(allParams))
        sortedParams  == [i \in 1..Len(sortedKeys) |->
                             Prop(sortedKeys[i], allParams[ObjGet(allParams, sortedKeys[i])].v)]
        paramString   == Join([i \in 1..Len(sortedParams) |->
                                   encodeURIComponent(sortedParams[i].k) \o <<"=">>
                                     \o encodeURIComponent(sortedParams[i].v)], <<"&">>)
        signatureBase == Join(<<method, encodeURIComponent(url),
                                encodeURIComponent(paramString)>>, <<"&">>)
        signingKey    == encodeURIComponent(ApiSecret) \o <<"&">>
                           \o encodeURIComponent(AccessSecret(cfg))
        signature     == HmacSha1Base64(signingKey, signatureBase)
    IN  [done |-> TRUE,
         keys |-> ObjectKeys(sortedParams),
         paramString |-> paramString,
         signatureBase |-> signatureBase,
         signature |-> signature,
         header |-> [oauth_consumer_key |-> encodeURIComponent(ApiKey),
                     oauth_nonce |-> encodeURIComponent(nonce),
                     oauth_signature |-> signature,
                     oauth_timestamp |-> timestamp,
                     oauth_token |-> encodeURIComponent(AccessToken(cfg))]]

NotSigned == <<>>

\* two calls: the same method and URL, two parameter objects, and the nonce
\* and timestamp drawn in each
Signing(method, url, params, nonces, timestamps) ==
    [method |-> method, url |-> url, params |-> params, nonces |-> nonces,
     timestamps |-> timestamps]

NoSigning == Signing(<<>>, <<>>, <<>>, <<>>, <<>>)

-----------------------------------------------------------------------------
(* Actions *)

\* names a caller registers or removes tools under
RegNames == {"my_tool"}

\* plugin.ts:21-41: the state after `new XPlugin(config)`
Init ==
    /\ xConfig \in Configs
    /\ client = Null
    /\ built = 0
    /\ tools = initializeTools(<<>>)
    /\ config = initializeTools(<<>>)
    /\ call = [c \in Calls |-> IdleCall]
    /\ response = NoResponse
    /\ normalized = NotProcessed
    /\ signing = NoSigning
    /\ signed = NotSigned

\* caller c calls the executor of catalog tool t with params p
InvokeTool(c, t, p) ==
    /\ call[c].pc = "idle"
    /\ Becomes(c, ExecEntry(World([IdleCall EXCEPT !.via = "tool", !.tool = t, !.params = p,
                                                   !.entryNull = (client = Null)])))

\* the executor goes on after `await this.init()` (plugin.ts:100-101)
ExecResume(c) ==
    /\ call[c].pc = "exec_init"
    /\ Becomes(c, IF call[c].initErr # NoErr
                  THEN World(Throw(call[c], call[c].initErr))
                  ELSE ExecCheck(World(call[c])))

\* caller c calls the XPlugin method of tool t directly
InvokeMethod(c, t, p) ==
    /\ call[c].pc = "idle"
    /\ Becomes(c, EnterMethod(World([IdleCall EXCEPT !.via = "direct", !.tool = t, !.params = p,
                                                     !.entryNull = (client = Null)])))

\* the XPlugin method goes on after `await this.init()` (plugin.ts:414-415)
MethodResume(c) ==
    /\ call[c].pc = "method_init"
    /\ Becomes(c, IF call[c].initErr # NoErr
                  THEN World(Throw(call[c], call[c].initErr))
                  ELSE MethodBody(World(call[c])))

\* the token endpoint answers (client.ts:141-178); the target request follows
TokenRespond(c, answer) ==
    /\ call[c].pc = "token"
    /\ Becomes(c, World(TokenDone(xConfig, call[c], answer)))

\* the target endpoint answers, or the connection fails (client.ts:213-263)
HttpRespond(c, resp) ==
    /\ call[c].pc = "http"
    /\ resp \in ResponsesTo(call[c].stage)
    /\ Becomes(c, World(RequestAnswered(xConfig, [call[c] EXCEPT !.answers = Append(@, resp)], resp)))

\* the caller has seen how its invocation ended
Complete(c) ==
    /\ call[c].pc = "done"
    /\ call' = [call EXCEPT ![c] = IdleCall]
    /\ UNCHANGED <<xConfig, client, built, tools, config, normalizerVars, signerVars>>

\* plugin.ts:46-76: init() called by the host
PluginInit ==
    /\ built < MaxClients
    /\ LET w == init(World(IdleCall))
       IN  /\ client' = w.client
           /\ built' = w.built
           /\ tools' = w.tools
           /\ config' = w.config
    /\ UNCHANGED <<xConfig, call, normalizerVars, signerVars>>

\* plugin.ts:367-372
registerTool(name) ==
    /\ tools' = MapSet(tools, name, "custom")
    /\ config' = MapSet(tools, name, "custom")
    /\ UNCHANGED <<xConfig, client, built, call, normalizerVars, signerVars>>

\* plugin.ts:377-386
removeTool(name) ==
    /\ tools' = removeToolResult(tools, config, name).tools
    /\ config' = removeToolResult(tools, config, name).config
    /\ UNCHANGED <<xConfig, client, built, call, normalizerVars, signerVars>>

Next ==
    \/ \E c \in Calls, t \in ToolNames : \E p \in ParamsFor(t) : InvokeTool(c, t, p)
    \/ \E c \in Calls : ExecResume(c)
    \/ \E c \in Calls, t \in ToolNames : \E p \in DirectParamsFor(t) : InvokeMethod(c, t, p)
    \/ \E c \in Calls : MethodResume(c)
    \/ \E c \in Calls, answer \in TokenResponses : TokenRespond(c, answer)
    \/ \E c \in Calls, resp \in HttpResponses \cup UploadResponses : HttpRespond(c, resp)
    \/ \E c \in Calls : Complete(c)
    \/ PluginInit
    \/ \E name \in RegNames : registerTool(name)
    \/ \E name \in RegNames : removeTool(name)

Spec == Init /\ [][Next]_vars

-----------------------------------------------------------------------------
(* The tool executors and init() alone, send_tweet with a `media` array
   included; registerTool, removeTool and the direct calls of the methods of
   the facade are left out *)

\* most media files of a tweet
MaxMedia == 2

\* a MediaFile by what uploadMedia reads of it: a buffer (or a path), or neither
FileKinds == {"buffer", "none"}

MediaInputs == { Some(files) : files \in UNION { [1..n -> FileKinds] : n \in 0..MaxMedia } }

MediaParams == { [NoParams EXCEPT !.text = Some("x"), !.media = m] : m \in MediaInputs }

InitTools ==
    /\ xConfig \in { XConfig(TRUE, TRUE, TRUE, TRUE, oauth2, oauth2) : oauth2 \in BOOLEAN }
    /\ client = Null
    /\ built = 0
    /\ tools = initializeTools(<<>>)
    /\ config = initializeTools(<<>>)
    /\ call = [c \in Calls |-> IdleCall]
    /\ response = NoResponse
    /\ normalized = NotProcessed
    /\ signing = NoSigning
    /\ signed = NotSigned

\* the `limit` a caller passes: zero, the ends of the documented range, and
\* numbers outside of it
LimitInputs == {Some(0), Some(1), Some(100), Some(101), Some(0 - 1)}

\* plugin.ts:222-225, 254-257: the params of x_get_tweets and x_search_tweets
\* with a limit
LimitParams(tool) ==
    { [p EXCEPT !.limit = l] :
        p \in { q \in ParamsFor(tool) : Truthy(q[RequiredField(MethodOf(tool))]) },
        l \in LimitInputs }

\* the params objects a caller passes to each tool, with or without media,
\* with or without a limit
ToolParamsFor(tool) ==
    CASE tool = "x_send_tweet" -> ParamsFor(tool) \cup MediaParams
      [] tool \in {"x_get_tweets", "x_search_tweets"} -> ParamsFor(tool) \cup LimitParams(tool)
      [] OTHER -> ParamsFor(tool)

NextTools ==
    \/ \E c \in Calls, t \in ToolNames : \E p \in ToolParamsFor(t) : InvokeTool(c, t, p)
    \/ \E c \in Calls : ExecResume(c)
    \/ \E c \in Calls, answer \in TokenResponses : TokenRespond(c, answer)
    \/ \E c \in Calls, resp \in HttpResponses \cup UploadResponses : HttpRespond(c, resp)
    \/ \E c \in Calls : Complete(c)
    \/ PluginInit

SpecTools == InitTools /\ [][NextTools]_vars

-----------------------------------------------------------------------------
(* Concurrent invocations: several callers invoke tool executors on a facade
   with valid credentials that starts uninitialized, while the host may call
   init() as well *)

\* number of concurrent callers
MaxCallers == 2

Callers == 1..MaxCallers

\* a tool with a request, one that posts, and one without any request
ConcurrentTools == {"x_get_profile", "x_send_tweet", "x_get_trends"}

ConcurrentResponses == { Response("ok", 200, "data_id"), Response("neterr", 0, "-") }

InitConcurrent ==
    /\ xConfig = XConfig(TRUE, TRUE, TRUE, TRUE, FALSE, FALSE)
    /\ client = Null
    /\ built = 0
    /\ tools = initializeTools(<<>>)
    /\ config = initializeTools(<<>>)
    /\ call = [c \in Callers |-> IdleCall]
    /\ response = NoResponse
    /\ normalized = NotProcessed
    /\ signing = NoSigning
    /\ signed = NotSigned

NextConcurrent ==
    \/ \E c \in Callers, t \in ConcurrentTools : \E p \in DirectParamsFor(t) : InvokeTool(c, t, p)
    \/ \E c \in Callers : ExecResume(c)
    \/ \E c \in Callers, resp \in ConcurrentResponses : HttpRespond(c, resp)
    \/ \E c \in Callers : Complete(c)
    \/ PluginInit

SpecConcurrent == InitConcurrent /\ [][NextConcurrent]_vars

-----------------------------------------------------------------------------
(* The registry: the host registers and removes tools under a name of its own
   and under catalog names, calls init(), and invokes a tool, which
   initializes lazily *)

RegistryNames == {"my_tool", "x_send_tweet", "x_get_trends"}

InitRegistry ==
    /\ xConfig = XConfig(TRUE, TRUE, TRUE, TRUE, FALSE, FALSE)
    /\ client = Null
    /\ built = 0
    /\ tools = initializeTools(<<>>)
    /\ config = initializeTools(<<>>)
    /\ call = [c \in Calls |-> IdleCall]
    /\ response = NoResponse
    /\ normalized = NotProcessed
    /\ signing = NoSigning
    /\ signed = NotSigned

NextRegistry ==
    \/ \E name \in RegistryNames : registerTool(name)
    \/ \E name \in RegistryNames : removeTool(name)
    \/ PluginInit
    \/ \E c \in Calls : InvokeTool(c, "x_get_trends", NoParams)
    \/ \E c \in Calls : ExecResume(c)
    \/ \E c \in Calls : Complete(c)

SpecRegistry == InitRegistry /\ [][NextRegistry]_vars

-----------------------------------------------------------------------------
(* XClient.request on its own: an XClient built with an API key and secret,
   with or without a client id and a client secret, is asked for requests of
   every shape *)

RequestMethods == {"GET", "POST", "DELETE"}

\* the `params` argument: {} or an object with one property
RequestParams == {{}, {"q"}}

\* the `data` argument: undefined, a JSON payload, a form
RequestData == {NoPayload, Payload("action", <<>>, 0), FormPayload(1)}

InitRequest ==
    /\ xConfig \in { XConfig(TRUE, TRUE, TRUE, TRUE, id, secret) : id, secret \in BOOLEAN }
    /\ client = Null
    /\ built = 0
    /\ tools = initializeTools(<<>>)
    /\ config = initializeTools(<<>>)
    /\ call = [c \in Calls |-> IdleCall]
    /\ response = NoResponse
    /\ normalized = NotProcessed
    /\ signing = NoSigning
    /\ signed = NotSigned

\* client.ts:111-117: request(method, endpoint, params, isV2, data) is called
ClientRequest(c, method, params, isV2, data) ==
    /\ call[c].pc = "idle"
    /\ Becomes(c, World(StartRequest(xConfig, [IdleCall EXCEPT !.via = "client"], "request",
                                     [Request(method, "/endpoint", isV2, params # {}, data)
                                         EXCEPT !.params = params])))

NextRequest ==
    \/ \E c \in Calls, method \in RequestMethods, params \in RequestParams :
          \E isV2 \in BOOLEAN, data \in RequestData : ClientRequest(c, method, params, isV2, data)
    \/ \E c \in Calls, answer \in TokenResponses : TokenRespond(c, answer)
    \/ \E c \in Calls, resp \in HttpResponses : HttpRespond(c, resp)
    \/ \E c \in Calls : Complete(c)

SpecRequest == InitRequest /\ [][NextRequest]_vars

-----------------------------------------------------------------------------
(* processTweets on its own: every response of a bounded set is normalized *)

\* the optional parts of a primary tweet: none; media keys (one of them
\* unknown to the media table) and references of each type; a quote of a
\* tweet that includes.tweets does not have, with a reply to one it has
TweetExtras ==
    { [media_keys |-> None, referenced_tweets |-> None],
      [media_keys |-> Some(<<"m1", "m9", "m2">>),
       referenced_tweets |-> Some(<<Ref("retweeted", "r1"), Ref("quoted", "r2"),
                                    Ref("replied_to", "r3")>>)],
      [media_keys |-> Some(<<"m2">>),
       referenced_tweets |-> Some(<<Ref("quoted", "r9"), Ref("replied_to", "r1")>>)] }

TweetInputs ==
    { RawTweet(id, text, a, x.media_keys, x.referenced_tweets) :
        id \in {"t1", "t2"}, text \in {"a", "b"}, a \in {None, Some("u1")}, x \in TweetExtras }

IncludedMedia ==
    <<RawMedia("m1", "photo", Some("url1"), None),
      RawMedia("m2", "video", None, Some("preview2"))>>

IncludedTweets ==
    <<RawTweet("r1", "rt1", Some("u2"), None, None),
      RawTweet("r2", "rt2", Some("u2"), None, None)>>

IncludedUsers ==
    <<RawUser("u1", "alice", "Alice", "img1"), RawUser("u2", "bob", "Bob", "img2")>>

IncludesInputs ==
    { None,
      Some(Includes(Some(IncludedMedia), Some(IncludedTweets), Some(IncludedUsers))),
      Some(Includes(None, Some(IncludedTweets), None)) }

ResponseInputs ==
    { RawResponse("array", items, inc) :
        items \in UNION { [1..n -> TweetInputs] : n \in 0..MaxTweets }, inc \in IncludesInputs }
      \cup { RawResponse("object", <<t>>, inc) : t \in TweetInputs, inc \in IncludesInputs }
      \cup { RawResponse("undefined", <<>>, inc) : inc \in IncludesInputs }

InitProcessTweets ==
    /\ xConfig = XConfig(TRUE, TRUE, TRUE, TRUE, FALSE, FALSE)
    /\ client = Null
    /\ built = 0
    /\ tools = initializeTools(<<>>)
    /\ config = initializeTools(<<>>)
    /\ call = [c \in Calls |-> IdleCall]
    /\ response \in ResponseInputs
    /\ normalized = NotProcessed
    /\ signing = NoSigning
    /\ signed = NotSigned

\* client.ts:333, 360, 410: a read method hands its response to processTweets
ProcessTweets ==
    /\ ~normalized.done
    /\ normalized' = processTweets(response)
    /\ UNCHANGED <<xConfig, client, built, tools, config, call, response, signerVars>>

NextProcessTweets == ProcessTweets

SpecProcessTweets == InitProcessTweets /\ [][NextProcessTweets]_vars

-----------------------------------------------------------------------------
(* generateAuthHeader on its own: two parameter objects with the same
   properties, inserted in any two orders, are signed *)

\* the query parameters to choose from: the two of a minimal example, and
\* two of those the XClient methods pass, with values that need escaping
ParamPool ==
    { Prop(<<"b">>, <<"1">>),
      Prop(<<"a">>, <<"2">>),
      Prop(<<"q","u","e","r","y">>, <<"a"," ","b">>),
      Prop(<<"u","s","e","r",".","f","i","e","l","d","s">>, <<"i","d",",","i","d">>) }

\* the objects of at most MaxParams of these properties, in every insertion order
ParamObjects ==
    { obj \in UNION { [1..n -> ParamPool] : n \in 0..MaxParams } :
        \A i, j \in 1..Len(obj) : i # j => obj[i] # obj[j] }

SameProperties(a, b) ==
    Len(a) = Len(b) /\ { a[i] : i \in 1..Len(a) } = { b[i] : i \in 1..Len(b) }

Nonces == {<<"n","1">>, <<"n","2">>}

Timestamp == <<"1","0">>

TargetUrl == <<"h",":","/","/","x","/","2","/","t">>

InitSign ==
    /\ xConfig \in { XConfig(TRUE, TRUE, user, user, FALSE, FALSE) : user \in BOOLEAN }
    /\ client = Null
    /\ built = 0
    /\ tools = initializeTools(<<>>)
    /\ config = initializeTools(<<>>)
    /\ call = [c \in Calls |-> IdleCall]
    /\ response = NoResponse
    /\ normalized = NotProcessed
    /\ signing \in { Signing(<<"G","E","T">>, TargetUrl, <<a, b>>, <<<<"n","1">>, n2>>,
                               <<Timestamp, Timestamp>>) :
                        a \in ParamObjects, b \in ParamObjects, n2 \in Nonces }
    /\ SameProperties(signing.params[1], signing.params[2])
    /\ signed = NotSigned

\* client.ts:166, 175: XClient.request asks for the header of each of the calls
Sign ==
    /\ signed = NotSigned
    /\ signed' = [i \in 1..2 |->
                     generateAuthHeader(xConfig, signing.method, signing.url, signing.params[i],
                                        signing.nonces[i], signing.timestamps[i])]
    /\ UNCHANGED <<xConfig, client, built, tools, config, call, normalizerVars, signing>>

NextSign == Sign

SpecSign == InitSign /\ [][NextSign]_vars

-----------------------------------------------------------------------------
(* Properties *)

CredentialsAbsent == ~xConfig.apiKey \/ ~xConfig.apiSecret

MutatingTools == {"x_send_tweet", "x_send_tweet_with_poll", "x_retweet", "x_like_tweet"}

\* the invocation of caller c went through a tool executor and has ended
ToolCallDone(c) == call[c].via = "tool" /\ call[c].pc = "done"

ReturnedEnvelope(c) ==
    call[c].outcome.kind = "returned" /\ call[c].outcome.val.kind = "envelope"

\* the answer to the last target request of caller c was a failure
TransportFailed(c) == call[c].resp.kind \in {"http", "neterr"}

\* C1: an executor never calls a domain operation while this.client is null,
\* and an invocation of an executor attempts init() exactly once if
\* this.client was null when it began and never otherwise.
ExecutorInitializesOnce ==
    \A c \in Calls :
        call[c].via = "tool" =>
            /\ ~call[c].nullDispatch
            /\ call[c].inits = IF call[c].entryNull THEN 1 ELSE 0

ExecutorInitializedThenDispatched ==
    \E c \in Calls :
        /\ ToolCallDone(c)
        /\ call[c].entryNull
        /\ call[c].dispatched
        /\ call[c].inits = 1
        /\ client # Null

\* C2: without an API key or secret, every tool invocation makes exactly one
\* init() attempt, ends by throwing 'X API key and secret are required',
\* issues no HTTP request and leaves this.client null, however many
\* invocations came before.
MissingCredentialsAreTerminal ==
    CredentialsAbsent =>
        /\ client = Null
        /\ \A c \in Calls :
              (call[c].via = "tool" /\ call[c].pc # "idle") =>
                  /\ call[c].inits = 1
                  /\ call[c].net = 0
                  /\ ~call[c].dispatched
                  /\ call[c].pc = "done" =>
                        /\ call[c].outcome.kind = "thrown"
                        /\ call[c].outcome.err.msg = "X API key and secret are required"

MissingCredentialsCallFailed ==
    /\ CredentialsAbsent
    /\ client = Null
    /\ \E c \in Calls :
          /\ ToolCallDone(c)
          /\ call[c].inits = 1
          /\ call[c].outcome.kind = "thrown"

\* C3: once this.client is set, no step other than an init() call by the host
\* (no tool invocation, registerTool or removeTool) changes it, calls
\* init(), or calls a method of another XClient object.
ReadyClientIsKept ==
    [][ (client # Null /\ ~PluginInit) =>
            /\ client' = client
            /\ built' = built
            /\ \A c \in Calls :
                  /\ call'[c].inits <= call[c].inits
                  /\ call'[c].used \subseteq (call[c].used \cup {client}) ]_vars

ReadyCallUsedTheClient ==
    /\ client # Null
    /\ HasKey(tools, "my_tool")
    /\ \E c \in Calls :
          /\ ToolCallDone(c)
          /\ ~call[c].entryNull
          /\ call[c].inits = 0
          /\ call[c].used = {client}

FailedMutationGivesFailureEnvelope ==
    \A c \in Calls :
        ( /\ ToolCallDone(c)
          /\ call[c].tool \in MutatingTools
          /\ ~call[c].entryNull
          /\ TransportFailed(c) ) =>
            /\ ReturnedEnvelope(c)
            /\ ~call[c].outcome.val.success
            /\ call[c].outcome.val.error # NoErr

\* C6: send_tweet_with_poll with a text and an option array of length 1 or 5
\* ends in a validation failure, not in a success envelope, and issues no
\* request; arrays of length 2, 3 and 4 pass validation.
PollOptionCountIsValidated ==
    \A c \in Calls :
        ( /\ call[c].via = "tool"
          /\ call[c].tool = "x_send_tweet_with_poll"
          /\ call[c].params.text = Some("x")
          /\ call[c].params.poll_options # None
          /\ ~call[c].entryNull ) =>
            LET n == Len(call[c].params.poll_options[1])
            IN  /\ n \in {1, 5} =>
                      /\ call[c].net = 0
                      /\ call[c].pc = "done" =>
                            ~(ReturnedEnvelope(c) /\ call[c].outcome.val.success)
                /\ n \in {2, 3, 4} => call[c].net > 0

\* C7: send_tweet_with_poll with a text and 2 to 4 options fails validation
\* for a duration_minutes of 4 or 10081 and issues no request; durations of
\* 5 and 10080 pass and are sent unchanged.
PollDurationIsValidated ==
    \A c \in Calls :
        ( /\ call[c].via = "tool"
          /\ call[c].tool = "x_send_tweet_with_poll"
          /\ call[c].params.text = Some("x")
          /\ call[c].params.poll_options # None
          /\ Len(call[c].params.poll_options[1]) \in {2, 3, 4}
          /\ call[c].params.duration_minutes # None
          /\ ~call[c].entryNull ) =>
            LET d == call[c].params.duration_minutes[1]
            IN  /\ d \in {4, 10081} => call[c].net = 0
                /\ d \in {5, 10080} =>
                      /\ Len(call[c].sent) = 1
                      /\ call[c].sent[1].data.duration = d

\* a tool call that leaves out the required parameter of its tool
OmitsRequired(c) ==
    /\ call[c].via = "tool"
    /\ call[c].tool # "x_get_trends"
    /\ call[c].pc # "idle"
    /\ call[c].params[RequiredField(MethodOf(call[c].tool))] = None

\* C8 as stated: a tool call that omits the required parameter (username, id,
\* query, text) ends with a thrown error naming the parameter, never with a
\* returned value, and issues no request.
MissingParameterIsNamed ==
    \A c \in Calls :
        OmitsRequired(c) =>
            /\ call[c].net = 0
            /\ call[c].pc = "done" =>
                  /\ call[c].outcome.kind = "thrown"
                  /\ call[c].outcome.err.msg = MissingMessage(MethodOf(call[c].tool))

\* C8 amended: a tool call that omits the required parameter ends with a
\* thrown error, never with a returned value, and issues no request; the
\* error names the parameter unless the lazy init() failed for lack of an API
\* key or secret, in which case it is the error of init().
MissingParameterThrows ==
    \A c \in Calls :
        OmitsRequired(c) =>
            /\ call[c].net = 0
            /\ call[c].pc = "done" =>
                  /\ call[c].outcome.kind = "thrown"
                  /\ call[c].outcome.err.msg =
                        IF CredentialsAbsent
                        THEN "X API key and secret are required"
                        ELSE MissingMessage(MethodOf(call[c].tool))

MissingParameterRejected ==
    \E c \in Calls :
        /\ OmitsRequired(c)
        /\ call[c].pc = "done"
        /\ call[c].tool = "x_send_tweet"
        /\ call[c].outcome.kind = "thrown"
        /\ call[c].outcome.err.msg = "Tweet text is required"

\* C9: x_get_trends ends by throwing, whatever the params and whether the
\* facade was initialized, could be initialized or not, and issues no request.
GetTrendsAlwaysThrows ==
    \A c \in Calls :
        (call[c].via = "tool" /\ call[c].tool = "x_get_trends") =>
            /\ call[c].net = 0
            /\ call[c].pc = "done" => call[c].outcome.kind = "thrown"

GetTrendsThrewWhenReady ==
    \E c \in Calls :
        /\ ToolCallDone(c)
        /\ call[c].tool = "x_get_trends"
        /\ ~call[c].entryNull
        /\ call[c].params.query # None
        /\ call[c].outcome.kind = "thrown"
        /\ call[c].outcome.err.msg = "getTrends is not implemented in the X API client"

\* C10: for a response with a non-2xx status s and a body b, XClient.request
\* throws an error carrying s and b, the same way for 401, 403, 429 and any
\* other status; the classification is only logged.
ApiErrorCarriesStatusAndBody ==
    \A c \in Calls :
        call[c].resp.kind = "http" =>
            /\ call[c].thrown.msg = "X API error"
            /\ call[c].thrown.status = call[c].resp.status
            /\ call[c].resp.body # "undefined" =>
                  call[c].thrown.detail = <<"json", call[c].resp.body>>

AuthenticationErrorThrown ==
    \E c \in Calls :
        /\ call[c].resp = Response("http", 401, "b1")
        /\ call[c].logged = "authentication"
        /\ call[c].thrown.status = 401
        /\ call[c].thrown.detail = <<"json", "b1">>

\* C11: whenever the remote API answers the request of a tool call with HTTP
\* 401, the caller of that tool observes an error outcome, a thrown error or an
\* envelope with success = false, for every tool of the catalog that issues a
\* request; never an empty result, null or success.
AuthenticationFailureIsAnError ==
    \A c \in Calls :
        (ToolCallDone(c) /\ call[c].resp.kind = "http" /\ call[c].resp.status = 401) =>
            \/ call[c].outcome.kind = "thrown"
            \/ ReturnedEnvelope(c) /\ call[c].outcome.val.success = FALSE

\* the XClient.request invocation of caller c that is under way, or was the
\* last one, is one that uses the OAuth 2.0 path
OAuth2Request(c) == call[c].req # NoReq /\ UseOAuth2(xConfig, call[c].req.isV2)

\* C12: with clientId and clientSecret present and a v2 target, XClient.request
\* first issues the token request (once, before any target request); after
\* every kind of token failure it generates one OAuth 1.0a header, issues the
\* target request exactly once with it, and never throws the token failure;
\* after a token it issues the target request exactly once with the bearer
\* header and generates no OAuth 1.0a header.
TokenFailureFallsBackToOAuth1 ==
    \A c \in Calls :
        OAuth2Request(c) =>
            /\ call[c].reqTokens = 1
            /\ call[c].pc = "token" => call[c].reqSent = 0
            /\ call[c].pc # "token" =>
                  /\ call[c].reqSent = 1
                  /\ call[c].tokenAnswer # "token" =>
                        /\ call[c].req.auth = "oauth1"
                        /\ call[c].oauth1 = 1
                        /\ call[c].tokenErr # NoErr
                        /\ call[c].thrown # call[c].tokenErr
                        /\ call[c].outcome.err # call[c].tokenErr
                  /\ call[c].tokenAnswer = "token" =>
                        /\ call[c].req.auth = "bearer"
                        /\ call[c].oauth1 = 0

\* a request whose token exchange failed was answered by the target endpoint
TokenFailedTargetAnswered ==
    \E c \in Calls :
        /\ OAuth2Request(c)
        /\ call[c].pc = "done"
        /\ call[c].tokenAnswer = "no_token"
        /\ call[c].req.auth = "oauth1"
        /\ call[c].resp.kind = "ok"
        /\ call[c].reqSent = 1

\* processTweets returned the tweets of the response
Normalized == normalized.done /\ ~normalized.raised

\* C13: processTweets keeps the input order, without deduplication or sorting:
\* for a response whose data is an array of n tweets the output has n tweets
\* and the i-th has the id and text of the i-th input tweet; for a data object
\* the output has exactly one tweet.
ProcessTweetsKeepsOrder ==
    (normalized.done /\ response.kind \in {"array", "object"}) =>
        /\ ~normalized.raised
        /\ Len(normalized.tweets) = Len(response.items)
        /\ \A i \in 1..Len(response.items) :
              /\ normalized.tweets[i].id = response.items[i].id
              /\ normalized.tweets[i].text = response.items[i].text
        /\ response.kind = "object" => Len(normalized.tweets) = 1

\* two input tweets with the same id and different texts were both kept
SameIdTweetsBothKept ==
    /\ Normalized
    /\ response.kind = "array"
    /\ Len(response.items) = 2
    /\ response.items[1].id = response.items[2].id
    /\ response.items[1].text = "b"
    /\ response.items[2].text = "a"
    /\ Len(normalized.tweets) = 2
    /\ normalized.tweets[1].text = "b"
    /\ normalized.tweets[2].text = "a"

\* C14: normalizing a response without `includes` never raises, whatever the
\* primary tweets carry (author_id, attachments.media_keys, referenced_tweets):
\* every output tweet has username "unknown", displayName "Unknown User",
\* profileImageUrl "", no media and neither retweetedStatus nor quotedStatus.
NoIncludesGivesPlaceholders ==
    (normalized.done /\ response.kind \in {"array", "object"} /\ response.includes = None) =>
        /\ ~normalized.raised
        /\ Len(normalized.tweets) = Len(response.items)
        /\ \A i \in 1..Len(normalized.tweets) :
              /\ normalized.tweets[i].username = "unknown"
              /\ normalized.tweets[i].displayName = "Unknown User"
              /\ normalized.tweets[i].profileImageUrl = ""
              /\ normalized.tweets[i].media = <<>>
              /\ normalized.tweets[i].retweetedStatus = None
              /\ normalized.tweets[i].quotedStatus = None

\* a tweet with author_id, media keys and references was normalized without
\* includes
FullTweetWithoutIncludes ==
    /\ Normalized
    /\ response.includes = None
    /\ \E i \in 1..Len(response.items) :
          /\ response.items[i].author_id # None
          /\ response.items[i].media_keys # None
          /\ response.items[i].referenced_tweets # None
          /\ normalized.tweets[i].username = "unknown"

\* the entries of includes.tweets of the response
IncludedTweetsOf(resp) ==
    IF resp.includes = None \/ resp.includes[1].tweets = None THEN <<>>
    ELSE resp.includes[1].tweets[1]

\* the entries of includes.users of the response
IncludedUsersOf(resp) ==
    IF resp.includes = None \/ resp.includes[1].users = None THEN <<>>
    ELSE resp.includes[1].users[1]

\* the username the author_id of a primary tweet resolves to
ResolvedUsername(resp, tweet) ==
    IF tweet.author_id # None
       /\ \E k \in 1..Len(IncludedUsersOf(resp)) : IncludedUsersOf(resp)[k].id = tweet.author_id[1]
    THEN (CHOOSE u \in { IncludedUsersOf(resp)[k] : k \in 1..Len(IncludedUsersOf(resp)) } :
             u.id = tweet.author_id[1]).username
    ELSE "unknown"

\* the status made of the included tweet a reference of the given type points
\* to, for the i-th primary tweet
StatusMatches(i, type, status) ==
    \A r \in 1..Len(response.items[i].referenced_tweets[1]) :
        LET ref == response.items[i].referenced_tweets[1][r]
        IN  \A k \in 1..Len(IncludedTweetsOf(response)) :
                (ref.type = type /\ IncludedTweetsOf(response)[k].id = ref.id) =>
                    /\ status # None
                    /\ status[1].id = IncludedTweetsOf(response)[k].id
                    /\ status[1].text = IncludedTweetsOf(response)[k].text
                    /\ status[1].username = ResolvedUsername(response, response.items[i])

\* C15: for a primary tweet with a referenced_tweets entry of type "retweeted"
\* (resp. "quoted") whose id is in includes.tweets, retweetedStatus (resp.
\* quotedStatus) has the id and text of that included tweet, and its username
\* is the primary tweet's resolved username (author_id looked up in
\* includes.users, or "unknown"), not the referenced tweet's author.
ReferencedStatusUsesPrimaryUsername ==
    (normalized.done /\ response.kind \in {"array", "object"}) =>
        /\ ~normalized.raised
        /\ \A i \in 1..Len(response.items) :
              response.items[i].referenced_tweets # None =>
                  /\ i <= Len(normalized.tweets)
                  /\ normalized.tweets[i].username = ResolvedUsername(response, response.items[i])
                  /\ StatusMatches(i, "retweeted", normalized.tweets[i].retweetedStatus)
                  /\ StatusMatches(i, "quoted", normalized.tweets[i].quotedStatus)

\* a retweet and quote by alice of tweets by bob carry alice in their statuses
RetweetOfAnotherAuthor ==
    /\ Normalized
    /\ \E i \in 1..Len(normalized.tweets) :
          /\ response.items[i].author_id = Some("u1")
          /\ normalized.tweets[i].username = "alice"
          /\ normalized.tweets[i].retweetedStatus = Some(ReferencedStatus("r1", "rt1", "alice"))
          /\ normalized.tweets[i].quotedStatus = Some(ReferencedStatus("r2", "rt2", "alice"))
          /\ \E k \in 1..Len(IncludedTweetsOf(response)) :
                /\ IncludedTweetsOf(response)[k].id = "r1"
                /\ IncludedTweetsOf(response)[k].author_id = Some("u2")

\* s precedes t in the order of the code units
Precedes(s, t) ==
    \E n \in 0..Len(s) :
        /\ n <= Len(t)
        /\ \A i \in 1..n : s[i] = t[i]
        /\ \/ n = Len(s) /\ n < Len(t)
           \/ n < Len(s) /\ n < Len(t) /\ Code(s[n + 1]) < Code(t[n + 1])

\* C16: the parameter string of generateAuthHeader lists the keys in ascending
\* lexicographic order, and does not depend on the insertion order of the
\* query parameters: for two parameter objects with the same properties, and
\* the same nonce and timestamp, the parameter string, the signature base
\* string and the signature are the same.
ParameterStringIsCanonical ==
    signed # NotSigned =>
        /\ \A c \in 1..2 : \A i, j \in 1..Len(signed[c].keys) :
              i < j => Precedes(signed[c].keys[i], signed[c].keys[j])
        /\ (signing.nonces[1] = signing.nonces[2] /\ signing.timestamps[1] = signing.timestamps[2]) =>
              /\ signed[1].paramString = signed[2].paramString
              /\ signed[1].signatureBase = signed[2].signatureBase
              /\ signed[1].signature = signed[2].signature

\* {b: 1, a: 2} and {a: 2, b: 1} were signed with the same nonce
BothOrdersSigned ==
    /\ signed # NotSigned
    /\ signing.params[1] = <<Prop(<<"b">>, <<"1">>), Prop(<<"a">>, <<"2">>)>>
    /\ signing.params[2] = <<Prop(<<"a">>, <<"2">>), Prop(<<"b">>, <<"1">>)>>
    /\ signing.nonces[1] = signing.nonces[2]
    /\ signed[1].keys[1] = <<"a">>
    /\ signed[1].keys[2] = <<"b">>
    /\ signed[1].signature = signed[2].signature

\* the media files the params of caller c carry
MediaFilesOf(c) == IF call[c].params.media = None THEN <<>> ELSE call[c].params.media[1]

\* the positions in call[c].sent of the requests to an endpoint
RequestsTo(c, endpoint) == { j \in 1..Len(call[c].sent) : call[c].sent[j].endpoint = endpoint }

\* the i-th media file of caller c was uploaded and the answer carried an id
UploadSucceeded(c, i) ==
    \E j \in RequestsTo(c, "/media/upload") :
        /\ call[c].sent[j].data.file = i
        /\ j <= Len(call[c].answers)
        /\ call[c].answers[j] = Response("ok", 200, "media_id")

\* the elements of a set of numbers in ascending order
Ascending(S) ==
    CHOOSE q \in [1..Cardinality(S) -> S] : \A i, j \in 1..Cardinality(S) : i < j => q[i] < q[j]

\* C17: in send_tweet with k media files, the files are uploaded in the given
\* order; a file whose upload fails, or that has neither path nor buffer, is
\* skipped without ending the call; once XClient.sendTweet was called, the
\* tweet request is issued afterwards, exactly once, with media_ids the ids of the uploads that succeeded, in
\* order, and with no media field when none succeeded.
MediaFailuresAreSkipped ==
    \A c \in Calls :
        (call[c].tool = "x_send_tweet" /\ call[c].params.media # None) =>
            LET files   == MediaFilesOf(c)
                uploads == RequestsTo(c, "/media/upload")
                posts   == RequestsTo(c, "/tweets")
                ids     == Ascending({ i \in 1..Len(files) : UploadSucceeded(c, i) })
            IN  /\ \A j \in uploads :
                      /\ call[c].sent[j].data.file \in 1..Len(files)
                      /\ files[call[c].sent[j].data.file] # "none"
                /\ \A j, k \in uploads :
                      j < k => call[c].sent[j].data.file < call[c].sent[k].data.file
                /\ \A j \in posts, k \in uploads : k < j
                /\ Cardinality(posts) <= 1
                /\ (call[c].pc = "done" /\ call[c].used # {}) =>
                      /\ { call[c].sent[j].data.file : j \in uploads }
                            = { i \in 1..Len(files) : files[i] # "none" }
                      /\ Cardinality(posts) = 1
                      /\ \A j \in posts :
                            /\ j = Len(call[c].sent)
                            /\ call[c].sent[j].data.media_ids
                                  = IF ids = <<>> THEN None ELSE Some(ids)

\* of two media files the upload of the first failed and the tweet went out
\* with the id of the second
TweetSentAfterFailedUpload ==
    \E c \in Calls :
        /\ call[c].pc = "done"
        /\ MediaFilesOf(c) = <<"buffer", "buffer">>
        /\ Len(call[c].answers) = 3
        /\ call[c].answers[1].kind = "http"
        /\ call[c].answers[2] = Response("ok", 200, "media_id")
        /\ call[c].sent[3].endpoint = "/tweets"
        /\ call[c].sent[3].data.media_ids = Some(<<2>>)
        /\ call[c].outcome.kind = "returned"

\* the answer to the j-th target request of caller c was a failure
AnswerFailed(c, j) == j <= Len(call[c].answers) /\ call[c].answers[j].kind \in {"http", "neterr"}

\* C18 as stated: no retry; every XClient.request invocation issues at most
\* one request to the target endpoint and at most one token request, and after
\* the failure of a target request no further request goes to the same
\* endpoint within the tool call.
NoRequestAfterFailure ==
    \A c \in Calls :
        /\ call[c].reqSent <= 1
        /\ call[c].reqTokens <= 1
        /\ \A j, k \in 1..Len(call[c].sent) :
              (AnswerFailed(c, j) /\ j < k) => call[c].sent[k].endpoint # call[c].sent[j].endpoint

\* what a request asks of the remote end, whatever the Authorization header
Asked(rq) == [rq EXCEPT !.auth = "-"]

\* C18, amended: no request is issued twice within a tool call; every
\* XClient.request invocation issues at most one request to the target
\* endpoint and at most one token request; a failed request ends the tool call
\* at once, except a failed media upload of send_tweet, after which only the
\* uploads of the later files and the tweet request follow.
NoRequestIsRepeated ==
    \A c \in Calls :
        /\ call[c].reqSent <= 1
        /\ call[c].reqTokens <= 1
        /\ call[c].tokens <= Len(call[c].sent) + 1
        /\ \A j, k \in 1..Len(call[c].sent) :
              j < k => Asked(call[c].sent[j]) # Asked(call[c].sent[k])
        /\ \A j \in 1..Len(call[c].sent) :
              AnswerFailed(c, j) =>
                  IF call[c].sent[j].endpoint = "/media/upload"
                  THEN \A k \in 1..Len(call[c].sent) :
                          j < k => \/ call[c].sent[k].endpoint = "/tweets"
                                   \/ /\ call[c].sent[k].endpoint = "/media/upload"
                                      /\ call[c].sent[k].data.file > call[c].sent[j].data.file
                  ELSE j = Len(call[c].sent) /\ call[c].pc = "done"

\* the upload of the first of two files failed, the second was uploaded, and
\* the call ended when the tweet request failed too
FailedRequestNotRepeated ==
    \E c \in Calls :
        /\ call[c].pc = "done"
        /\ call[c].tool = "x_send_tweet"
        /\ Len(call[c].sent) = 3
        /\ AnswerFailed(c, 1)
        /\ call[c].sent[2].endpoint = "/media/upload"
        /\ call[c].sent[2].data.file = 2
        /\ call[c].sent[3].endpoint = "/tweets"
        /\ AnswerFailed(c, 3)
        /\ call[c].outcome.val.success = FALSE

\* the names of the tools in the order getTools() returns them
ToolListing == [i \in 1..Len(getTools(tools)) |-> getTools(tools)[i].name]

\* C19: after construction the registry holds exactly the nine catalog tools
\* in catalog order, and any number of successful init() calls, explicit or
\* lazy, leaves the names, their order in getTools() and their number as they
\* are: no duplicates are created.
RegistryIsRederivedIdempotently ==
    /\ ToolListing = getChatManifests
    /\ Len(getTools(tools)) = 9
    /\ \A i, j \in 1..Len(tools) : i # j => tools[i].name # tools[j].name
    /\ \A i \in 1..Len(tools) : tools[i].execute = "catalog"

\* init() has succeeded more than once, the second time on a Ready facade
InitializedTwice ==
    /\ built >= 2
    /\ client = built
    /\ ToolListing = getChatManifests

\* C20: under every interleaving of concurrent tool invocations on a facade
\* with valid credentials that starts uninitialized, an invocation attempts
\* init() itself exactly when it found this.client null; every attempt leaves
\* the facade in the same state (a client, the catalog registry), however many
\* ran; and every invocation dispatches with a client: none dispatches on
\* null or ends with 'X client not initialized'.
ConcurrentCallsFindAClient ==
    /\ \A c \in DOMAIN call :
          call[c].via = "tool" =>
              /\ call[c].inits = IF call[c].entryNull THEN 1 ELSE 0
              /\ ~call[c].nullDispatch
              /\ call[c].outcome.err # ErrNotInitialized
              /\ call[c].pc \in {"http", "done"} =>
                    /\ call[c].dispatched
                    /\ call[c].used # {} \/ call[c].tool = "x_get_trends"
              /\ call[c].pc # "idle" => client # Null
    /\ built >= 1 =>
          /\ client = built
          /\ [i \in 1..Len(tools) |-> tools[i].name] = getChatManifests
          /\ config = tools

\* two invocations are in flight at once, the first of which initialized the
\* facade, and init() has run once more since
TwoCallsInFlight ==
    \E c, d \in DOMAIN call :
        /\ c # d
        /\ call[c].pc = "http" /\ call[c].entryNull /\ call[c].inits = 1
        /\ call[d].pc = "http" /\ ~call[d].entryNull /\ call[d].inits = 0
        /\ built = 2
        /\ call[c].used = {1}
        /\ call[d].used = {2}

ReadTools == {"x_get_profile", "x_get_tweets", "x_get_tweet", "x_search_tweets"}

\* the last target request of caller c was answered with a 2xx status and a
\* body without `data`
AnsweredWithoutData(c) ==
    /\ call[c].answers # <<>>
    /\ Len(call[c].answers) = Len(call[c].sent)
    /\ call[c].resp.kind = "ok"
    /\ ~HasData(call[c].resp.body)

\* C21: a read operation whose request is answered successfully but without a
\* data entity returns a value and throws nothing: get_profile and get_tweet
\* return null, get_tweets and search_tweets return an empty array; when the
\* profile lookup of get_tweets has no user, the empty array is returned
\* without any request for the tweets.
AbsentEntityIsAValue ==
    \A c \in Calls :
        (call[c].pc = "done" /\ call[c].tool \in ReadTools /\ AnsweredWithoutData(c)) =>
            /\ call[c].outcome.kind = "returned"
            /\ call[c].tool \in {"x_get_profile", "x_get_tweet"} =>
                  call[c].outcome.val.kind = "null"
            /\ call[c].tool \in {"x_get_tweets", "x_search_tweets"} =>
                  call[c].outcome.val.kind = "empty_array"
            /\ (call[c].tool = "x_get_tweets" /\ Len(call[c].answers) = 1) =>
                  /\ RequestsTo(c, "/users/:id/tweets") = {}
                  /\ call[c].net - call[c].tokens = 1

UnknownUserHasNoTweets ==
    \E c \in Calls :
        /\ ToolCallDone(c)
        /\ call[c].tool = "x_get_tweets"
        /\ call[c].answers = <<Response("ok", 200, "no_data")>>
        /\ Len(call[c].sent) = 1
        /\ call[c].outcome.kind = "returned"
        /\ call[c].outcome.val.kind = "empty_array"

\* the requests of caller c that carry max_results
WithMaxResults(c) == { j \in 1..Len(call[c].sent) : "max_results" \in call[c].sent[j].query }

\* the decimal texts of 1..100
DocumentedLimits == { NumberToString(n) : n \in 1..100 }

\* C22: the max_results sent for x_get_tweets and x_search_tweets is "10"
\* when the caller omits limit, and lies in 1..100 for every limit the caller
\* supplies.
MaxResultsIsInRange ==
    \A c \in Calls :
        \A j \in WithMaxResults(c) :
            /\ call[c].params.limit = None => call[c].sent[j].max_results = <<"1", "0">>
            /\ call[c].sent[j].max_results \in DocumentedLimits

\* the part of C22 about the default: max_results is "10" without a limit
MaxResultsDefaultsToTen ==
    \A c \in Calls :
        \A j \in WithMaxResults(c) :
            call[c].params.limit = None => call[c].sent[j].max_results = <<"1", "0">>

\* the entries of includes.media of the response
IncludedMediaOf(resp) ==
    IF resp.includes = None \/ resp.includes[1].media = None THEN <<>>
    ELSE resp.includes[1].media[1]

\* the media keys of a primary tweet that includes.media has, in their order
ResolvableKeys(resp, tweet) ==
    LET Known(key) == \E k \in 1..Len(IncludedMediaOf(resp)) :
                          IncludedMediaOf(resp)[k].media_key = key
    IN  IF tweet.media_keys = None THEN <<>> ELSE SelectSeq(tweet.media_keys[1], Known)

\* the references of a type among those of a primary tweet
RefsOfType(tweet, type) ==
    LET OfType(ref) == ref.type = type
    IN  IF tweet.referenced_tweets = None THEN <<>>
        ELSE SelectSeq(tweet.referenced_tweets[1], OfType)

\* no reference of the type points to a tweet of includes.tweets
Unresolved(resp, tweet, type) ==
    \A r \in 1..Len(RefsOfType(tweet, type)) :
        \A k \in 1..Len(IncludedTweetsOf(resp)) :
            IncludedTweetsOf(resp)[k].id # RefsOfType(tweet, type)[r].id

\* C23: processTweets raises nothing for references and media keys the
\* includes do not resolve: retweetedStatus (quotedStatus) stays unset when no
\* "retweeted" ("quoted") reference has its id in includes.tweets;
\* inReplyToStatusId is the id of the "replied_to" reference, be that id in
\* includes.tweets or not; and the media list has one item per media key that
\* includes.media has, in the order of the keys.
UnresolvedReferencesAreDropped ==
    (normalized.done /\ response.kind \in {"array", "object"}) =>
        /\ ~normalized.raised
        /\ Len(normalized.tweets) = Len(response.items)
        /\ \A i \in 1..Len(response.items) :
              LET tweet == response.items[i]
                  out   == normalized.tweets[i]
                  keys  == ResolvableKeys(response, tweet)
                  reply == RefsOfType(tweet, "replied_to")
              IN  /\ Unresolved(response, tweet, "retweeted") => out.retweetedStatus = None
                  /\ Unresolved(response, tweet, "quoted") => out.quotedStatus = None
                  /\ reply # <<>> => out.inReplyToStatusId = Some(reply[Len(reply)].id)
                  /\ reply = <<>> => out.inReplyToStatusId = None
                  /\ Len(out.media) = Len(keys)
                  /\ \A j \in 1..Len(keys) :
                        \E k \in 1..Len(IncludedMediaOf(response)) :
                            /\ IncludedMediaOf(response)[k].media_key = keys[j]
                            /\ out.media[j].type = IncludedMediaOf(response)[k].type

\* with all three side tables present: the unknown media key m9 is dropped
\* between m1 and m2, the quote of the unknown r9 leaves quotedStatus unset,
\* the reply to the unknown r3 and the reply to the included r1 are both kept
UnknownKeyAndReferenceDropped ==
    /\ Normalized
    /\ IncludedMediaOf(response) # <<>>
    /\ IncludedTweetsOf(response) # <<>>
    /\ Len(normalized.tweets) = 2
    /\ response.items[1].media_keys = Some(<<"m1", "m9", "m2">>)
    /\ normalized.tweets[1].media = <<[type |-> "photo", url |-> Some("url1")],
                                      [type |-> "video", url |-> Some("preview2")]>>
    /\ normalized.tweets[1].inReplyToStatusId = Some("r3")
    /\ response.items[2].referenced_tweets = Some(<<Ref("quoted", "r9"), Ref("replied_to", "r1")>>)
    /\ normalized.tweets[2].quotedStatus = None
    /\ normalized.tweets[2].inReplyToStatusId = Some("r1")

\* C24: query parameters go into the URL and into the signed parameter set
\* only for GET: a request of another method has no query string, signs
\* exactly the six OAuth parameters and sends its data as the body; a GET
\* sends no body; no request carries both a query string and a body.
ParamsAreForGetOnly ==
    \A c \in Calls :
        \A j \in 1..Len(call[c].sent) :
            LET rq == call[c].sent[j]
            IN  /\ rq.query = IF rq.method = "GET" THEN rq.params ELSE {}
                /\ rq.auth = "oauth1" =>
                      rq.signed = OAuthParamNames \cup (IF rq.method = "GET" THEN rq.params ELSE {})
                /\ rq.method # "GET" => rq.body = rq.data
                /\ rq.method = "GET" => rq.body = NoPayload
                /\ ~(rq.query # {} /\ rq.body # NoPayload)

\* a POST called with params and data was sent under OAuth 1.0a: no query
\* string, six signed parameters, the data as body
PostWithParamsSent ==
    \E c \in Calls :
        /\ call[c].pc = "http"
        /\ call[c].req.method = "POST"
        /\ call[c].req.params = {"q"}
        /\ call[c].req.data = Payload("action", <<>>, 0)
        /\ call[c].req.auth = "oauth1"
        /\ call[c].req.query = {}
        /\ Cardinality(call[c].req.signed) = 6
        /\ call[c].req.body = Payload("action", <<>>, 0)

\* C25: XClient.request issues the OAuth 2.0 token request exactly when the
\* client has both clientId and clientSecret and the endpoint is a v2 one;
\* otherwise it issues none and the request carries an OAuth 1.0a header.
\* The URL starts with the 2 base path for a v2 endpoint and with the 1.1
\* base path otherwise.
TokenExchangeNeedsBothCredentials ==
    \A c \in Calls :
        call[c].stage = "request" =>
            /\ call[c].reqTokens =
                  IF xConfig.clientId /\ xConfig.clientSecret /\ call[c].req.isV2 THEN 1 ELSE 0
            /\ call[c].reqTokens = 0 =>
                  /\ call[c].oauth1 = 1
                  /\ \A j \in 1..Len(call[c].sent) : call[c].sent[j].auth = "oauth1"
            /\ \A j \in 1..Len(call[c].sent) :
                  call[c].sent[j].url =
                      <<IF call[c].sent[j].isV2 THEN "https://api.twitter.com/2"
                        ELSE "https://api.twitter.com/1.1", "/endpoint">>

\* a v2 request of a client with a client id and no client secret was sent
\* with an OAuth 1.0a header and without a token request
ClientIdAloneSignsOAuth1 ==
    \E c \in Calls :
        /\ xConfig.clientId
        /\ ~xConfig.clientSecret
        /\ call[c].pc = "http"
        /\ call[c].req.isV2
        /\ call[c].tokens = 0
        /\ call[c].req.auth = "oauth1"
        /\ call[c].req.url = <<"https://api.twitter.com/2", "/endpoint">>

\* the names of the tools of a map
NamesOf(m) == { m[i].name : i \in 1..Len(m) }

\* C26: config.tools is always the list of the values of the tools map in
\* insertion order, the list getTools() returns; in every state the registry
\* reaches, removeTool(n) returns true exactly when n is registered, leaves
\* getTool(n) undefined and the other tools as they were, and changes
\* neither the registry nor config.tools when it returns false.
ConfigListsTheRegistry ==
    /\ config = getTools(tools)
    /\ \A n \in RegistryNames :
          LET r == removeToolResult(tools, config, n)
          IN  /\ r.returned = (n \in NamesOf(tools))
              /\ getTool(r.tools, n) = None
              /\ \A other \in NamesOf(tools) \ {n} : getTool(r.tools, other) = getTool(tools, other)
              /\ r.config = getTools(r.tools)
              /\ ~r.returned => (r.tools = tools /\ r.config = config)

\* a catalog tool was removed and the caller's tool registered after it: it
\* went to the end, config.tools lists the same nine tools, and a second
\* removeTool of the catalog tool returns false
RemovedAndRegisteredAgain ==
    /\ Len(tools) = 9
    /\ getTool(tools, "x_send_tweet") = None
    /\ ~removeToolResult(tools, config, "x_send_tweet").returned
    /\ removeToolResult(tools, config, "my_tool").returned
    /\ tools[9] = Tool("my_tool", "custom")
    /\ tools[8] = Tool("x_get_trends", "catalog")
    /\ config = tools

\* the step is a successful init(): an XClient was built
InitSucceeded == built' = built + 1

\* C27: a successful init(), explicit or lazy, leaves all nine catalog tools
\* registered with the catalog executors: every tool registered before keeps
\* its place, with the catalog executor if its name is a catalog name and
\* unchanged otherwise, and the catalog tools that were missing follow at the
\* end.
InitRestoresTheCatalog ==
    [][ InitSucceeded =>
            /\ \A n \in ToolNames : getTool(tools', n) = Some(Tool(n, "catalog"))
            /\ Len(tools') = Len(tools) + Cardinality(ToolNames \ NamesOf(tools))
            /\ \A i \in 1..Len(tools) :
                  tools'[i] = IF tools[i].name \in ToolNames
                              THEN Tool(tools[i].name, "catalog")
                              ELSE tools[i]
            /\ \A i \in (Len(tools) + 1)..Len(tools') :
                  tools'[i].name \in ToolNames \ NamesOf(tools)
            /\ config' = tools' ]_vars

\* after init(): the caller's tool is where it was, in front of it the
\* catalog tool it had overwritten under a catalog name, and at the end the
\* catalog tool that had been removed
CatalogRestoredAroundCustomTool ==
    /\ client # Null
    /\ Len(tools) = 10
    /\ tools[9] = Tool("my_tool", "custom")
    /\ tools[10] = Tool("x_send_tweet", "catalog")
    /\ tools[8] = Tool("x_get_trends", "catalog")

\* the params object supplies the parameter with a value of the documented
\* range: a non-empty string, two to four options, 5 to 10080 minutes
Supplied(p, field) ==
    /\ p[field] # None
    /\ CASE field = "options"          -> Len(p[field][1]) \in 2..4
         [] field = "duration_minutes" -> p[field][1] \in 5..10080
         [] OTHER                      -> p[field][1] # ""

\* the errors the facade throws for a parameter it misses
MissingParameterErrors ==
    { Err(MissingMessage(MethodOf(t))) : t \in ToolNames \ {"x_get_trends"} } \cup {ErrPollOptions}

\* C28: a tool called with every parameter its schema marks as required,
\* under the names of the schema and with values in range, is not rejected by
\* the parameter validation of the facade.
SchemaAndExecutorAgree ==
    \A c \in Calls :
        (/\ ToolCallDone(c)
         /\ \A field \in SchemaRequired(call[c].tool) : Supplied(call[c].params, field)
         /\ call[c].outcome.kind = "thrown")
            => call[c].outcome.err \notin MissingParameterErrors

\* C29: a method of XPlugin called directly on a facade without client, with
\* an API key and secret configured, does not fail with 'X client not
\* initialized', and the facade has a client once the call has ended.
DirectCallsInitializeLazily ==
    \A c \in Calls :
        (/\ call[c].via = "direct"
         /\ call[c].pc = "done"
         /\ call[c].entryNull
         /\ ~CredentialsAbsent)
            => /\ ~(call[c].outcome.kind = "thrown" /\ call[c].outcome.err = ErrNotInitialized)
               /\ client # Null

\* the profile lookup of caller c was answered with a user
LookupFoundUser(c) ==
    /\ Len(call[c].answers) >= 1
    /\ call[c].answers[1].kind = "ok"
    /\ HasData(call[c].answers[1].body)

\* C30: XClient.getTweets issues the profile lookup first and the tweets
\* request second, the second only after the lookup was answered with a user
\* and with that user's id in its path; when the lookup fails or has no user
\* there is no tweets request and the result is an empty array; whatever the
\* answers, getTweets returns and never throws.
GetTweetsIsTwoOrderedSteps ==
    \A c \in Calls :
        (call[c].tool = "x_get_tweets" /\ call[c].used # {}) =>
            /\ Len(call[c].sent) <= 2
            /\ Len(call[c].sent) >= 1 =>
                  call[c].sent[1].endpoint = "/users/by/username/:username"
            /\ Len(call[c].sent) = 2 =>
                  /\ LookupFoundUser(c)
                  /\ call[c].sent[2].endpoint = "/users/:id/tweets"
                  /\ call[c].sent[2].pathId =
                        IF HasId(call[c].answers[1].body) THEN RemoteId ELSE "undefined"
            /\ call[c].pc = "done" =>
                  /\ call[c].outcome.kind = "returned"
                  /\ call[c].outcome.val.kind \in {"tweets", "empty_array"}
                  /\ ~LookupFoundUser(c) =>
                        /\ Len(call[c].sent) <= 1
                        /\ call[c].outcome.val.kind = "empty_array"
                  /\ LookupFoundUser(c) => Len(call[c].sent) = 2

\* the lookup found a user, the tweets request for that user's id was
\* answered with an error, and getTweets returned an empty array
TweetsRequestFailedAfterLookup ==
    \E c \in Calls :
        /\ ToolCallDone(c)
        /\ call[c].tool = "x_get_tweets"
        /\ Len(call[c].sent) = 2
        /\ call[c].answers[1] = Response("ok", 200, "data_id")
        /\ call[c].sent[2].pathId = RemoteId
        /\ call[c].answers[2].kind = "http"
        /\ call[c].outcome.kind = "returned"
        /\ call[c].outcome.val.kind = "empty_array"

====
